---- MODULE Spec2Model ----
(***************************************************************************)
(* Communication backplane of the agent system: the Redis discovery        *)
(* service, context manager and backplane facade, modelled from            *)
(* src/src/backplane.                                                      *)
(*                                                                         *)
(* Every `await` on the Redis client is a suspension point.  A handler     *)
(* that reads a record and later writes it back is therefore two steps,    *)
(* with the value it read carried in a task record in between.             *)
(***************************************************************************)
EXTENDS Integers, Sequences, FiniteSets, Bags, TLC

VARIABLES
    agentStore,      \* Redis keys `${prefix}agent:${id}` -> stored JSON registration
    heartbeatTimer,  \* agent ids of the running heartbeat intervals; the field holds the last
    tasks,           \* bag of discovery calls suspended at an await
    calls,           \* number of calls started so far
    discPublished,   \* messages published on the discovery channel, per <<type, id>>
    now,             \* the clock read by new Date() / Date.now(), in ms
    goneIds,         \* history: ids whose unregisterAgent returned, no registerAgent since
    last,            \* history: the step taken last and what it returned
    findResult,      \* <<>> or <<[query, result]>>: the last findAgents call
    hbDue,           \* <<>> or <<time the heartbeat setInterval fires next>>
    sweepDue,        \* <<>> or <<time the cleanup setInterval fires next>>
    ctxStore,        \* Redis keys `${prefix}context:${contextId}` -> stored JSON node list
    branchStore,     \* Redis keys `${prefix}branch:${branchId}` -> stored JSON ContextBranch
    ctxChannel,      \* context channel: events published and not yet handled
    ctxSubscribed,   \* RedisContextManager.initialize() has subscribed
    ctxPublished,    \* number of events published on the context channel
    facade,          \* the class of the backplane object: "BaseBackplane" or "RedisBackplane"
    connected,       \* BaseBackplane.connected / RedisBackplane.isConnected
    clientOpen,      \* the Redis client of the RedisBackplane has an open connection
    subscriber,      \* RedisDiscoveryService.subscriber: "undefined", "closed" or "open"
    orphans,         \* open subscriber connections and running sweep timers no field refers to
    subscriptions,   \* RedisMessageBroker.subscriptions: key -> [slot, handler]
    msgStore,        \* Redis keys `${prefix}message:${id}` -> stored JSON envelope
    msgChannel,      \* message channel: payloads published and not yet received
    msgSubscribed,   \* RedisMessageBroker.initialize() has subscribed
    dispatches,      \* subscriber callbacks suspended at an await
    publishResult,   \* history: envelope id -> "none", "ok" or "failed" (the publish call)
    persistFailed,   \* history: ids of envelopes whose persistence write failed
    delivery,        \* history: payloads received so far, and the handler invocations in order
    shutdown,        \* history: <<>>, or <<what was stored and published when cleanup() returned>>
    tenantConfig,    \* two backplane instances on one Redis: [prefix, pubsub] of each
    tenantStore,     \* the keys of that Redis -> stored value
    tenantState,     \* per instance: connected, watching, broker subscribed, handler set
    retired          \* history: [key, handler, by] removed or replaced, key not given that handler since

discVars == <<agentStore, heartbeatTimer, tasks, calls, discPublished, now,
              goneIds, last>>

findVars == <<findResult>>

shutVars == <<shutdown>>

tenantVars == <<tenantConfig, tenantStore, tenantState>>

timerVars == <<hbDue, sweepDue>>

ctxVars == <<ctxStore, branchStore, ctxChannel, ctxSubscribed, ctxPublished>>

bcastVars == <<facade, connected, clientOpen, subscriber, orphans>>

brokerVars == <<subscriptions, msgStore, msgChannel, msgSubscribed, dispatches,
                publishResult, persistFailed, delivery, retired>>

vars == <<discVars, findVars, shutVars, tenantVars, timerVars, ctxVars, bcastVars, brokerVars>>

\* What the steps of the discovery service leave alone.
notDiscovery == <<findVars, shutVars, tenantVars, timerVars, ctxVars, bcastVars, brokerVars>>

----------------------------------------------------------------------------
(* Bounds of the model *)

MaxCalls == 4        \* discovery calls and timer callbacks started in one behaviour
MaxTicks == 1        \* clock ticks in the interleaving specification
MaxTimerTicks == 8   \* clock ticks in the timed specification
MaxCtxCalls == 3     \* context-manager calls started in one behaviour
MaxCtxTicks == 1     \* clock ticks (ms) in the context specification
MaxOrphans == 2      \* subscriber connections or sweep timers left behind by repeated connects

----------------------------------------------------------------------------
(* Program constants *)

heartbeatInterval == 30000
cleanupInterval == 60000
staleAfter == 120000

AgentIds == {"a1", "a2"}
Statuses == {"active", "idle", "busy", "offline"}
EventTypes == {"add", "remove", "update"}

----------------------------------------------------------------------------
(* JSON.stringify / JSON.parse.  Strings and arrays of strings survive the *)
(* round trip; a Date is written as its ISO-8601 string and JSON.parse     *)
(* leaves that string a string.                                            *)

Date(ms) == [date |-> ms]
IsDate(v) == DOMAIN v = {"date"}
toISOString(d) == [iso |-> d.date]
JsonTime(v) == IF IsDate(v) THEN toISOString(v) ELSE v

\* JSON.parse(JSON.stringify(registration)) of an AgentRegistration
JsonRegistration(r) ==
    [id |-> r.id, role |-> r.role, capabilities |-> r.capabilities,
     status |-> r.status, lastSeen |-> JsonTime(r.lastSeen),
     metadata |-> r.metadata,
     registeredAt |-> JsonTime(r.registeredAt),
     lastHeartbeat |-> JsonTime(r.lastHeartbeat)]

\* new Date(isoString).getTime()
getTime(v) == IF IsDate(v) THEN v.date ELSE v.iso

----------------------------------------------------------------------------
(* The Redis client: get, set, del, keys on the agent namespace *)

Get(store, key) == IF key \in DOMAIN store THEN <<store[key]>> ELSE <<>>
Set(store, key, val) == [k \in DOMAIN store \cup {key} |->
                            IF k = key THEN val ELSE store[k]]
Del(store, key) == [k \in DOMAIN store \ {key} |-> store[k]]
Keys(store) == DOMAIN store

Publish(pub, type, id) == [pub EXCEPT ![<<type, id>>] = @ + 1]

----------------------------------------------------------------------------
(* RedisDiscoveryService *)

\* A query of findAgents: each criterion is <<>> (not given) or <<value>>.
EmptyQuery == [role |-> <<>>, capabilities |-> <<>>, status |-> <<>>]

\* JavaScript truthiness of an optional string / array criterion: undefined
\* and the empty string are falsy, every array (also the empty one) is truthy.
TruthyString(opt) == opt # <<>> /\ opt[1] # ""
TruthyArray(opt) == opt # <<>>

\* Mutant of MatchesQuery: `some` for `every` (any requested capability is enough).
MatchesQueryAnyCapability(agent, query) ==
    IF TruthyString(query.role) /\ agent.role # query.role[1] THEN FALSE
    ELSE IF TruthyArray(query.capabilities)
            /\ ~(\E cap \in query.capabilities[1] : cap \in agent.capabilities)
         THEN FALSE
    ELSE IF TruthyString(query.status) /\ agent.status # query.status[1] THEN FALSE
    ELSE TRUE

\* The filter callback of findAgents, in the order of its `if`s.
MatchesQuery(agent, query) ==
    IF TruthyString(query.role) /\ agent.role # query.role[1] THEN FALSE
    ELSE IF TruthyArray(query.capabilities)
            /\ ~(\A cap \in query.capabilities[1] : cap \in agent.capabilities)
         THEN FALSE
    ELSE IF TruthyString(query.status) /\ agent.status # query.status[1] THEN FALSE
    ELSE TRUE

\* findAgents: keys(`agent:*`), get each key, drop the nulls, filter.
FindAgents(store, query) ==
    LET agents == {Get(store, key) : key \in Keys(store)}
    IN  {data[1] : data \in {d \in agents : d # <<>> /\ MatchesQuery(d[1], query)}}

\* What callers pass as AgentInfo (Agent.init passes lastSeen: new Date()).
InfoChoices ==
    { [role |-> "dev", capabilities |-> {"a"}, status |-> "active", metadata |-> "m1"],
      [role |-> "qa", capabilities |-> {"a", "b"}, status |-> "idle", metadata |-> "m2"] }

AgentInfo(id, c, t) ==
    [id |-> id, role |-> c.role, capabilities |-> c.capabilities,
     status |-> c.status, lastSeen |-> Date(t), metadata |-> c.metadata]

\* registerAgent line 79-83: {...info, registeredAt: new Date(), lastHeartbeat: new Date()}
Registration(info, t) ==
    [id |-> info.id, role |-> info.role, capabilities |-> info.capabilities,
     status |-> info.status, lastSeen |-> info.lastSeen, metadata |-> info.metadata,
     registeredAt |-> Date(t), lastHeartbeat |-> Date(t)]

\* stopHeartbeat: clearInterval of the interval in the one timer field,
\* whichever agent it was started for.
StopHeartbeat(timer) == IF timer = <<>> THEN <<>> ELSE SubSeq(timer, 1, Len(timer) - 1)

\* Mutant of StartHeartbeat: the interval in the field is not cleared first.
StartHeartbeatNoStop(timer, id) == Append(timer, id)

\* startHeartbeat: stopHeartbeat(), then a new interval for agentId is put in
\* the field.
StartHeartbeat(timer, id) == Append(StopHeartbeat(timer), id)

NoStep == [op |-> "none"]

\* A suspended call: what it is, its arguments, and the data its get returned.
Task(kind, id, status, data) ==
    [kind |-> kind, id |-> id, status |-> status, data |-> data]

Suspend(bag, t) == bag (+) SetToBag({t})
Resume(bag, t) == bag (-) SetToBag({t})

\* Mutant of RegisterWrite: an existing record is kept (SET ... NX).
RegisterWriteIfAbsent(store, info, t) ==
    IF info.id \in DOMAIN store
    THEN store
    ELSE Set(store, info.id, JsonRegistration(Registration(info, t)))

\* registerAgent(info): set, publish `add`, startHeartbeat.
RegisterWrite(store, info, t) == Set(store, info.id, JsonRegistration(Registration(info, t)))

RegisterAgent(id, c) ==
    /\ calls < MaxCalls
    /\ LET info == AgentInfo(id, c, now) IN
        /\ agentStore' = RegisterWrite(agentStore, info, now)
        /\ discPublished' = Publish(discPublished, "add", id)
        /\ heartbeatTimer' = StartHeartbeat(heartbeatTimer, id)
        /\ goneIds' = goneIds \ {id}
        /\ last' = [op |-> "registerAgent", id |-> id, info |-> info,
                    timerBefore |-> heartbeatTimer,
                    prior |-> Get(agentStore, id)]
    /\ calls' = calls + 1
    /\ UNCHANGED <<tasks, now>>
    /\ UNCHANGED notDiscovery

\* Mutant of UnregisterPublish: the publish moved out of the `if (data)` block.
UnregisterPublishAlways(pub, id, data) == Publish(pub, "remove", id)

\* unregisterAgent line 112-124: the `remove` event is published inside `if (data)`.
UnregisterPublish(pub, id, data) ==
    IF data # <<>> THEN Publish(pub, "remove", id) ELSE pub

\* unregisterAgent up to its first await: `const data = await this.client.get(key)`.
\* With no record the call goes straight to stopHeartbeat() and returns.
UnregisterGet(id) ==
    /\ calls < MaxCalls
    /\ calls' = calls + 1
    /\ LET data == Get(agentStore, id) IN
        IF data # <<>>
        THEN /\ tasks' = Suspend(tasks, Task("unregister", id, "", data))
             /\ last' = [op |-> "await", id |-> id]
             /\ UNCHANGED <<heartbeatTimer, discPublished, goneIds>>
        ELSE /\ discPublished' = UnregisterPublish(discPublished, id, data)
             /\ heartbeatTimer' = StopHeartbeat(heartbeatTimer)
             /\ goneIds' = goneIds \cup {id}
             /\ last' = [op |-> "unregisterAgent", id |-> id, found |-> FALSE,
                         removes |-> discPublished'[<<"remove", id>>]
                                       - discPublished[<<"remove", id>>]]
             /\ UNCHANGED tasks
    /\ UNCHANGED <<agentStore, now>>
    /\ UNCHANGED notDiscovery

\* unregisterAgent after the get: del, publish `remove`, stopHeartbeat, return.
UnregisterDel(t) ==
    /\ t.kind = "unregister"
    /\ agentStore' = Del(agentStore, t.id)
    /\ discPublished' = UnregisterPublish(discPublished, t.id, t.data)
    /\ heartbeatTimer' = StopHeartbeat(heartbeatTimer)
    /\ tasks' = Resume(tasks, t)
    /\ goneIds' = goneIds \cup {t.id}
    /\ last' = [op |-> "unregisterAgent", id |-> t.id, found |-> TRUE,
                removes |-> discPublished'[<<"remove", t.id>>]
                              - discPublished[<<"remove", t.id>>]]
    /\ UNCHANGED <<calls, now>>
    /\ UNCHANGED notDiscovery

\* updateAgentStatus line 137-139: the registration read, with status and
\* lastHeartbeat replaced.
UpdatedRegistration(registration, status, t) ==
    [registration EXCEPT !.status = status, !.lastHeartbeat = Date(t)]

\* Mutant of UpdateMissing: an update of a missing record creates it (an upsert).
UpdateMissingUpsert(store, id, status, t) ==
    Set(store, id, [id |-> id, status |-> status, lastHeartbeat |-> toISOString(Date(t))])

\* updateAgentStatus line 133-135: `if (!data) throw`, before any write.
UpdateMissing(store, id, status, t) == store

\* The number of discovery events published between two states of the channel.
PublishedBetween(pub, pub2) ==
    LET RECURSIVE Sum(_)
        Sum(es) == IF es = {} THEN 0
                   ELSE LET e == CHOOSE x \in es : TRUE
                        IN  (pub2[e] - pub[e]) + Sum(es \ {e})
    IN  Sum(DOMAIN pub)

\* updateAgentStatus up to its first await; throws `Agent ${id} not found`.
UpdateGet(id, status) ==
    /\ calls < MaxCalls
    /\ calls' = calls + 1
    /\ UNCHANGED <<heartbeatTimer, discPublished, now, goneIds>>
    /\ LET data == Get(agentStore, id) IN
        IF data # <<>>
        THEN /\ tasks' = Suspend(tasks, Task("update", id, status, data))
             /\ last' = [op |-> "await", id |-> id]
             /\ UNCHANGED agentStore
        ELSE /\ agentStore' = UpdateMissing(agentStore, id, status, now)
             /\ last' = [op |-> "updateAgentStatus", id |-> id, error |-> "NotFound",
                         found |-> FALSE,
                         events |-> PublishedBetween(discPublished, discPublished')]
             /\ UNCHANGED tasks
    /\ UNCHANGED notDiscovery

\* updateAgentStatus after the get: set, publish `update`, return.
UpdateSet(t) ==
    /\ t.kind = "update"
    /\ agentStore' = Set(agentStore, t.id,
                         JsonRegistration(UpdatedRegistration(t.data[1], t.status, now)))
    /\ discPublished' = Publish(discPublished, "update", t.id)
    /\ tasks' = Resume(tasks, t)
    /\ last' = [op |-> "updateAgentStatus", id |-> t.id, error |-> "none",
                found |-> TRUE,
                events |-> PublishedBetween(discPublished, discPublished')]
    /\ UNCHANGED <<heartbeatTimer, calls, now, goneIds>>
    /\ UNCHANGED notDiscovery

\* The heartbeat callback line 212-213: the registration read, lastHeartbeat replaced.
HeartbeatRegistration(registration, t) ==
    [registration EXCEPT !.lastHeartbeat = Date(t)]

\* The setInterval callback of startHeartbeat fires and reaches its get.
HeartbeatGet ==
    /\ calls < MaxCalls
    /\ heartbeatTimer # <<>>
    /\ calls' = calls + 1
    /\ \E i \in DOMAIN heartbeatTimer :
       LET id == heartbeatTimer[i]
           data == Get(agentStore, id) IN
        /\ tasks' = IF data # <<>>
                    THEN Suspend(tasks, Task("heartbeat", id, "", data))
                    ELSE tasks
        /\ last' = [op |-> IF data # <<>> THEN "await" ELSE "heartbeat", id |-> id]
    /\ UNCHANGED <<agentStore, heartbeatTimer, discPublished, now, goneIds>>
    /\ UNCHANGED notDiscovery

\* The callback's set.  clearInterval does not cancel a callback in progress.
HeartbeatSet(t) ==
    /\ t.kind = "heartbeat"
    /\ agentStore' = Set(agentStore, t.id,
                         JsonRegistration(HeartbeatRegistration(t.data[1], now)))
    /\ tasks' = Resume(tasks, t)
    /\ last' = [op |-> "heartbeat", id |-> t.id]
    /\ UNCHANGED <<heartbeatTimer, calls, discPublished, now, goneIds>>
    /\ UNCHANGED notDiscovery

\* Time passes.
Tick ==
    /\ now < MaxTicks * heartbeatInterval
    /\ now' = now + heartbeatInterval
    /\ last' = [op |-> "tick", id |-> ""]
    /\ UNCHANGED <<agentStore, heartbeatTimer, tasks, calls, discPublished, goneIds>>
    /\ UNCHANGED notDiscovery

InitDiscovery ==
    /\ agentStore = << >>
    /\ heartbeatTimer = <<>>
    /\ tasks = EmptyBag
    /\ calls = 0
    /\ discPublished = [e \in EventTypes \X AgentIds |-> 0]
    /\ now = 0
    /\ goneIds = {}
    /\ last = NoStep

InitFind == findResult = <<>>

InitTimers == hbDue = <<>> /\ sweepDue = <<>>

InitContext ==
    /\ ctxStore = << >>
    /\ branchStore = << >>
    /\ ctxChannel = << >>
    /\ ctxSubscribed = FALSE
    /\ ctxPublished = 0

\* After the constructors: createClient() has opened nothing, the discovery
\* service has no subscriber and no timer.
InitLifecycle ==
    /\ connected = FALSE
    /\ clientOpen = FALSE
    /\ subscriber = "undefined"
    /\ orphans = [subscribers |-> 0, timers |-> 0]

\* The facade over the services is a RedisBackplane, not yet connected.
InitFacade == facade = "RedisBackplane" /\ InitLifecycle

\* Identifiers produced by generateId() for the envelopes of the model.
EnvelopeIds == {"e1", "e2"}

\* The broker after its constructor: no handler, nothing stored or in flight.
InitBroker ==
    /\ subscriptions = << >>
    /\ msgStore = << >>
    /\ msgChannel = << >>
    /\ msgSubscribed = FALSE
    /\ dispatches = {}
    /\ publishResult = [id \in EnvelopeIds |-> "none"]
    /\ persistFailed = {}
    /\ retired = {}
    /\ delivery = [received |-> 0, invoked |-> << >>]

\* cleanup() has not been called.
InitShutdown == shutdown = <<>>

\* The two backplane instances of the multi-tenant specification.
TenantIds == {1, 2}

\* A BackplaneConfig: prefix and the pubsub channel names (<<>>: not given).
TenantConfig(prefix, discoveryChannel, messageChannel) ==
    [prefix |-> prefix, discoveryChannel |-> discoveryChannel,
     messageChannel |-> messageChannel]

\* Nothing stored; neither instance connected, watching or subscribed.
InitTenantState ==
    /\ tenantStore = << >>
    /\ tenantState = [i \in TenantIds |->
                         [connected |-> FALSE, watching |-> FALSE,
                          brokerSubscribed |-> FALSE, handler |-> FALSE]]

\* Prefixes "p" and "q", no channel names configured.
InitTenants ==
    /\ tenantConfig = [i \in TenantIds |->
                          TenantConfig(IF i = 1 THEN <<"p">> ELSE <<"q">>, <<>>, <<>>)]
    /\ InitTenantState

Init ==
    /\ InitDiscovery /\ InitFind /\ InitTimers /\ InitContext /\ InitFacade /\ InitBroker
    /\ InitTenants /\ InitShutdown

Next ==
    \/ \E id \in AgentIds, c \in InfoChoices : RegisterAgent(id, c)
    \/ \E id \in AgentIds : UnregisterGet(id)
    \/ \E t \in BagToSet(tasks) : UnregisterDel(t)
    \/ \E id \in AgentIds, status \in Statuses : UpdateGet(id, status)
    \/ \E t \in BagToSet(tasks) : UpdateSet(t)
    \/ HeartbeatGet
    \/ \E t \in BagToSet(tasks) : HeartbeatSet(t)
    \/ Tick

Spec == Init /\ [][Next]_vars

----------------------------------------------------------------------------
(* findAgents as a function of the store and the query: SpecFind starts    *)
(* from any store that registerAgent calls can have written and applies    *)
(* findAgents with any query.                                              *)

FindRoles == {"", "dev", "qa"}
FindCapabilities == {"a", "b"}
FindStatuses == {"active", "busy"}

FindInfos(id) ==
    { AgentInfo(id, [role |-> r, capabilities |-> c, status |-> st, metadata |-> "m"], 0) :
        r \in FindRoles, c \in SUBSET FindCapabilities, st \in FindStatuses }

\* The stores left by one registerAgent call for each id of a set of ids.
RECURSIVE StoresOver(_)
StoresOver(ids) ==
    IF ids = {} THEN { << >> }
    ELSE LET id == CHOOSE x \in ids : TRUE IN
         { RegisterWrite(store, info, 0) :
             store \in StoresOver(ids \ {id}), info \in FindInfos(id) }

FindStores == UNION { StoresOver(ids) : ids \in SUBSET AgentIds }

FindQueries ==
    [ role : {<<>>} \cup { <<r>> : r \in FindRoles },
      capabilities : {<<>>} \cup { <<c>> : c \in SUBSET FindCapabilities },
      status : {<<>>} \cup { <<st>> : st \in FindStatuses } ]

FindAgentsCall(query) ==
    /\ findResult' = << [query |-> query, result |-> FindAgents(agentStore, query)] >>
    /\ UNCHANGED <<discVars, shutVars, tenantVars, timerVars, ctxVars, bcastVars, brokerVars>>

InitFindStore ==
    /\ agentStore \in FindStores
    /\ heartbeatTimer = <<>>
    /\ tasks = EmptyBag
    /\ calls = 0
    /\ discPublished = [e \in EventTypes \X AgentIds |-> 0]
    /\ now = 0
    /\ goneIds = {}
    /\ last = NoStep
    /\ InitFind
    /\ InitTimers
    /\ InitContext
    /\ InitFacade
    /\ InitBroker
    /\ InitTenants /\ InitShutdown

NextFind == \E query \in FindQueries : FindAgentsCall(query)

SpecFind == InitFindStore /\ [][NextFind]_vars

\* The records of the store, as a reader of the keys sees them.
StoredRecords == { agentStore[k] : k \in DOMAIN agentStore }

\* C5 as stated: findAgents(query) returns exactly the stored records with
\* role = query.role if a role is given, all of query.capabilities present if
\* given, and status = query.status if given.
C5_FindAgentsExactlyMatching ==
    findResult # <<>> =>
        LET q == findResult[1].query IN
        findResult[1].result =
            { r \in StoredRecords :
                /\ (q.role # <<>> => r.role = q.role[1])
                /\ (q.capabilities # <<>> => q.capabilities[1] \subseteq r.capabilities)
                /\ (q.status # <<>> => r.status = q.status[1]) }

\* C5 amended: the role criterion applies if a non-empty role is given; an
\* empty-string role is treated as not given.
C5_FindAgentsMatchingNonEmptyRole ==
    findResult # <<>> =>
        LET q == findResult[1].query IN
        findResult[1].result =
            { r \in StoredRecords :
                /\ ((q.role # <<>> /\ q.role[1] # "") => r.role = q.role[1])
                /\ (q.capabilities # <<>> => q.capabilities[1] \subseteq r.capabilities)
                /\ (q.status # <<>> => r.status = q.status[1]) }

\* Witness of C5: a query for [a, b] over a store with an agent that has
\* only {a} and one that has {a, b} returned the second alone.
C5_Witness ==
    /\ findResult # <<>>
    /\ findResult[1].query.capabilities = << {"a", "b"} >>
    /\ \E r \in StoredRecords : r.capabilities = {"a"}
    /\ Cardinality(findResult[1].result) = 1
    /\ \A r \in findResult[1].result : r.capabilities = {"a", "b"}

----------------------------------------------------------------------------
(* The timers of one discovery instance against the clock: SpecTimers.     *)
(* The clock advances in steps of the heartbeat interval, and only when no *)
(* interval callback is due; a callback runs to its end at the instant it  *)
(* fires.  initialize() ran at time 0 and started the cleanup interval.    *)

\* Mutant of IsStale: the staleness bound one heartbeat interval too long.
IsStaleLate(registration, t) ==
    t - getTime(registration.lastHeartbeat) > staleAfter + heartbeatInterval

\* The cleanup callback line 250-253: now - lastHeartbeat > 120000.
IsStale(registration, t) ==
    t - getTime(registration.lastHeartbeat) > staleAfter

StaleKeys(store, t) == { k \in Keys(store) : IsStale(store[k], t) }

TimedRegisterAgent(id, c) ==
    /\ calls < MaxCalls
    /\ calls' = calls + 1
    /\ LET info == AgentInfo(id, c, now) IN
        /\ agentStore' = RegisterWrite(agentStore, info, now)
        /\ last' = [op |-> "registerAgent", id |-> id, info |-> info,
                    prior |-> Get(agentStore, id)]
    /\ discPublished' = Publish(discPublished, "add", id)
    /\ heartbeatTimer' = StartHeartbeat(heartbeatTimer, id)
    /\ hbDue' = <<now + heartbeatInterval>>
    /\ goneIds' = goneIds \ {id}
    /\ UNCHANGED <<tasks, now, findVars, shutVars, tenantVars, sweepDue, ctxVars, bcastVars, brokerVars>>

TimedUnregisterAgent(id) ==
    /\ calls < MaxCalls
    /\ calls' = calls + 1
    /\ LET data == Get(agentStore, id) IN
        /\ agentStore' = IF data # <<>> THEN Del(agentStore, id) ELSE agentStore
        /\ discPublished' = UnregisterPublish(discPublished, id, data)
        /\ last' = [op |-> "unregisterAgent", id |-> id, found |-> data # <<>>,
                    removes |-> discPublished'[<<"remove", id>>]
                                  - discPublished[<<"remove", id>>]]
    /\ heartbeatTimer' = StopHeartbeat(heartbeatTimer)
    /\ hbDue' = <<>>
    /\ goneIds' = goneIds \cup {id}
    /\ UNCHANGED <<tasks, now, findVars, shutVars, tenantVars, sweepDue, ctxVars, bcastVars, brokerVars>>

\* The heartbeat interval fires: get, set with lastHeartbeat = now.
TimedHeartbeat ==
    /\ heartbeatTimer # <<>>
    /\ hbDue = <<now>>
    /\ LET id == heartbeatTimer[1]
           data == Get(agentStore, id) IN
        agentStore' = IF data # <<>>
                      THEN Set(agentStore, id,
                               JsonRegistration(HeartbeatRegistration(data[1], now)))
                      ELSE agentStore
    /\ hbDue' = <<now + heartbeatInterval>>
    /\ last' = [op |-> "heartbeat", id |-> heartbeatTimer[1]]
    /\ UNCHANGED <<heartbeatTimer, tasks, calls, discPublished, now, goneIds,
                   findVars, shutVars, tenantVars, sweepDue, ctxVars, bcastVars, brokerVars>>

\* The cleanup interval fires: every stale record goes through unregisterAgent
\* (del, publish `remove`, stopHeartbeat).
TimedSweep ==
    /\ sweepDue = <<now>>
    /\ LET stale == StaleKeys(agentStore, now) IN
        /\ agentStore' = [k \in DOMAIN agentStore \ stale |-> agentStore[k]]
        /\ discPublished' = [e \in DOMAIN discPublished |->
                               IF e[1] = "remove" /\ e[2] \in stale
                               THEN discPublished[e] + 1 ELSE discPublished[e]]
        /\ heartbeatTimer' = IF stale # {} THEN StopHeartbeat(heartbeatTimer)
                                           ELSE heartbeatTimer
        /\ hbDue' = IF stale # {} THEN <<>> ELSE hbDue
        /\ goneIds' = goneIds \cup stale
        /\ last' = [op |-> "sweep", id |-> "", evicted |-> stale,
                    ages |-> { now - getTime(agentStore[k].lastHeartbeat) : k \in stale }]
    /\ sweepDue' = <<now + cleanupInterval>>
    /\ UNCHANGED <<tasks, calls, now, findVars, shutVars, tenantVars, ctxVars, bcastVars, brokerVars>>

TimedTick ==
    /\ now < MaxTimerTicks * heartbeatInterval
    /\ hbDue # <<now>>
    /\ sweepDue # <<now>>
    /\ now' = now + heartbeatInterval
    /\ last' = [op |-> "tick", id |-> ""]
    /\ UNCHANGED <<agentStore, heartbeatTimer, tasks, calls, discPublished, goneIds,
                   findVars, shutVars, tenantVars, timerVars, ctxVars, bcastVars, brokerVars>>

InitSweeping ==
    /\ InitDiscovery
    /\ InitFind
    /\ hbDue = <<>>
    /\ sweepDue = <<cleanupInterval>>
    /\ InitContext
    /\ InitFacade
    /\ InitBroker
    /\ InitTenants /\ InitShutdown

NextTimers ==
    \/ \E id \in AgentIds, c \in InfoChoices : TimedRegisterAgent(id, c)
    \/ \E id \in AgentIds : TimedUnregisterAgent(id)
    \/ TimedHeartbeat
    \/ TimedSweep
    \/ TimedTick

SpecTimers == InitSweeping /\ [][NextTimers]_vars

\* C4: with the sweep loop running, no record stays in the store longer than
\* sweepInterval + stalenessBound (180 s) after its last heartbeat.
C4_EvictedWithinSweepPlusStale ==
    \A k \in DOMAIN agentStore :
        now - getTime(agentStore[k].lastHeartbeat) <= cleanupInterval + staleAfter

\* Witness of C4: a sweep evicted a record exactly 180 s after the last
\* heartbeat written to it.
C4_Witness ==
    /\ last.op = "sweep"
    /\ cleanupInterval + staleAfter \in last.ages

----------------------------------------------------------------------------
(* The sweep callback and cleanup() at their awaits: SpecShutdown.  A run   *)
(* of the sweep reads a key, and for a stale record calls unregisterAgent,  *)
(* which reads the key again before it deletes and publishes.  Runs of the  *)
(* sweep overlap when one is still waiting as the next begins.              *)

MaxSweepTicks == 3

\* One sweep interval passes.
SweepTick ==
    /\ now < MaxSweepTicks * cleanupInterval
    /\ now' = now + cleanupInterval
    /\ last' = [op |-> "tick", id |-> ""]
    /\ UNCHANGED <<agentStore, heartbeatTimer, tasks, calls, discPublished, goneIds>>
    /\ UNCHANGED notDiscovery

\* A run of the cleanup callback has listed the key of id and its get
\* returns (line 242-253): a stale record is handed to unregisterAgent.
SweepGet(id) ==
    /\ calls < MaxCalls
    /\ sweepDue # <<>>
    /\ id \in Keys(agentStore)
    /\ calls' = calls + 1
    /\ tasks' = IF IsStale(agentStore[id], now)
                THEN Suspend(tasks, Task("sweep", id, "", Get(agentStore, id)))
                ELSE tasks
    /\ last' = [op |-> "sweepGet", id |-> id]
    /\ UNCHANGED <<agentStore, heartbeatTimer, discPublished, now, goneIds>>
    /\ UNCHANGED notDiscovery

\* unregisterAgent(registration.id) called by the sweep reaches its own get
\* (line 110-111).
SweepUnregister(t) ==
    /\ t.kind = "sweep"
    /\ LET data == Get(agentStore, t.id) IN
        IF data # <<>>
        THEN /\ tasks' = Suspend(Resume(tasks, t), Task("unregister", t.id, "", data))
             /\ last' = [op |-> "await", id |-> t.id]
             /\ UNCHANGED <<heartbeatTimer, discPublished, goneIds>>
        ELSE /\ tasks' = Resume(tasks, t)
             /\ discPublished' = UnregisterPublish(discPublished, t.id, data)
             /\ heartbeatTimer' = StopHeartbeat(heartbeatTimer)
             /\ goneIds' = goneIds \cup {t.id}
             /\ last' = [op |-> "unregisterAgent", id |-> t.id, found |-> FALSE,
                         removes |-> discPublished'[<<"remove", t.id>>]
                                       - discPublished[<<"remove", t.id>>]]
    /\ UNCHANGED <<agentStore, calls, now>>
    /\ UNCHANGED notDiscovery

\* RedisDiscoveryService.cleanup(): both intervals cleared, the subscriber quit
\* and forgotten.  Callbacks that are waiting at an await are not touched.
DiscoveryCleanup ==
    /\ shutdown = <<>>
    /\ heartbeatTimer' = StopHeartbeat(heartbeatTimer)
    /\ hbDue' = <<>>
    /\ sweepDue' = <<>>
    /\ subscriber' = "undefined"
    /\ shutdown' = << [store |-> agentStore, published |-> discPublished] >>
    /\ last' = [op |-> "cleanup", id |-> ""]
    /\ UNCHANGED <<agentStore, tasks, calls, discPublished, now, goneIds,
                   findVars, tenantVars, ctxVars, facade, connected, clientOpen, orphans,
                   brokerVars>>

\* No registerAgent is called after cleanup().
NextShutdown ==
    \/ shutdown = <<>> /\ \E id \in AgentIds, c \in InfoChoices : RegisterAgent(id, c)
    \/ HeartbeatGet
    \/ \E t \in BagToSet(tasks) : HeartbeatSet(t)
    \/ SweepTick
    \/ \E id \in AgentIds : SweepGet(id)
    \/ \E t \in BagToSet(tasks) : SweepUnregister(t)
    \/ \E t \in BagToSet(tasks) : UnregisterDel(t)
    \/ DiscoveryCleanup

SpecShutdown == InitSweeping /\ [][NextShutdown]_vars

\* C27: once cleanup() has returned, no heartbeat or sweep callback writes or
\* deletes an agent record or publishes a discovery event: the store and the
\* channel stay as cleanup() left them.
C27_NothingWrittenAfterCleanup ==
    shutdown # <<>> =>
        /\ agentStore = shutdown[1].store
        /\ discPublished = shutdown[1].published

\* C28: evictions publish one `remove` event each, so an agent id never has
\* more `remove` events than it had registrations.
C28_OneRemovePerEviction ==
    \A id \in AgentIds :
        discPublished[<<"remove", id>>] <= discPublished[<<"add", id>>]

\* The agent ids that have a running heartbeat interval.
TimerIds(timer) == { timer[i] : i \in DOMAIN timer }

\* C35: a sweep evicts nothing that this running instance registered and did
\* not unregister: every record in the store has a lastHeartbeat less than
\* 120 s old at every sweep.
C35_LiveAgentNeverEvicted ==
    last.op = "sweep" => last.evicted = {}

\* C25: every agent registered through the instance and neither unregistered
\* nor evicted has a running heartbeat timer of its own.
C25_EveryRegisteredAgentHasItsTimer ==
    \A id \in DOMAIN agentStore : id \in TimerIds(heartbeatTimer)

----------------------------------------------------------------------------
(* Claims about the discovery service, checked under Spec *)

\* C26: no two running heartbeat timers are for the same agent id.
C26_OneHeartbeatTimerPerAgent ==
    \A i, j \in DOMAIN heartbeatTimer :
        heartbeatTimer[i] = heartbeatTimer[j] => i = j

\* Witness of C26: registerAgent was called for an id whose timer was running,
\* and one timer runs for the id afterwards.
C26_Witness ==
    /\ last.op = "registerAgent"
    /\ last.id \in TimerIds(last.timerBefore)
    /\ last.id \in TimerIds(heartbeatTimer)

\* C34: a step in which unregisterAgent(X) returns leaves the heartbeat timer
\* of every other agent running.
C34_UnregisterKeepsOtherTimers ==
    [][last'.op = "unregisterAgent" =>
          \A y \in TimerIds(heartbeatTimer) \ {last'.id} : y \in TimerIds(heartbeatTimer')]_vars

\* C29: the write of a heartbeat callback changes nothing of the stored
\* record but lastHeartbeat: the status (and every other field) that an
\* updateAgentStatus wrote while the callback was waiting is still stored.
C29_HeartbeatChangesOnlyLastHeartbeat ==
    [][(last'.op = "heartbeat" /\ last'.id \in DOMAIN agentStore) =>
          [agentStore'[last'.id] EXCEPT !.lastHeartbeat = 0]
              = [agentStore[last'.id] EXCEPT !.lastHeartbeat = 0]]_vars

\* C1: once unregisterAgent(id) has returned, and until registerAgent(id) is
\* called again, findAgents({}) returns no record with that id, whatever
\* heartbeat callback or updateAgentStatus call is in progress.
C1_UnregisteredStaysAbsent ==
    \A id \in goneIds : \A r \in FindAgents(agentStore, EmptyQuery) : r.id # id

\* C2 as stated: every call of unregisterAgent(id) publishes exactly one
\* `remove` event, whether or not a record for id existed.
C2_ExactlyOneRemovePerCall ==
    last.op = "unregisterAgent" => last.removes = 1

\* C2 amended: a call of unregisterAgent(id) publishes exactly one `remove`
\* event when its read finds a record for id, and none when it finds no record.
C2_OneRemoveIffRecordFound ==
    last.op = "unregisterAgent" => last.removes = (IF last.found THEN 1 ELSE 0)

\* Witness of C2: a call that found no record returned without publishing,
\* after an earlier call for the same id had published its `remove`.
C2_Witness ==
    /\ last.op = "unregisterAgent"
    /\ ~last.found
    /\ last.removes = 0
    /\ discPublished[<<"remove", last.id>>] = 1

C20_UpdateOfMissingAgentFails ==
    last.op = "updateAgentStatus" =>
        IF last.found
        THEN last.error = "none"
        ELSE /\ last.error = "NotFound"
             /\ last.id \notin DOMAIN agentStore
             /\ last.events = 0

\* Witness of C20: the call failed for an id that is not stored while another
\* agent is.
C20_Witness ==
    /\ last.op = "updateAgentStatus"
    /\ ~last.found
    /\ last.error = "NotFound"
    /\ agentStore # << >>

----------------------------------------------------------------------------
(* RedisContextManager.  A string is the sequence of its characters, so    *)
(* that the key patterns of mergeContextBranch (`S-T-*`) and of the delete *)
(* handler (`*id*`) match as Redis KEYS matches them.                      *)

Dash == <<"-">>
IdS == <<"s">>
IdT == <<"t">>
IdTX == <<"t", "-", "x">>        \* the id "t-x"

SourceIds == {IdS}
TargetIds == {IdT, IdTX}

\* ContextNode values as callers hold them: timestamp is a Date.
Node(id) == [id |-> id, timestamp |-> Date(0)]
NodeLists == { <<Node("n1")>>, <<Node("n2")>> }

\* JSON.parse(JSON.stringify(nodes))
JsonNodes(nodes) ==
    [i \in DOMAIN nodes |-> [id |-> nodes[i].id, timestamp |-> JsonTime(nodes[i].timestamp)]]

\* `${sourceId}-${targetId}-${Date.now()}`
BranchId(sourceId, targetId, t) == sourceId \o Dash \o targetId \o Dash \o <<ToString(t)>>

\* `${sourceId}-${targetId}-*` against a key (the branch prefix left out on both sides)
IsPrefix(p, str) == Len(p) <= Len(str) /\ SubSeq(str, 1, Len(p)) = p
MergePattern(sourceId, targetId) == sourceId \o Dash \o targetId \o Dash
MatchesMergePattern(key, sourceId, targetId) == IsPrefix(MergePattern(sourceId, targetId), key)

\* `*${contextId}*` against a key
Contains(str, sub) ==
    \E i \in 1..(Len(str) - Len(sub) + 1) : SubSeq(str, i, i + Len(sub) - 1) = sub

\* getSharedContext: `data ? JSON.parse(data) : []`
GetSharedContext(store, contextId) ==
    IF contextId \in DOMAIN store THEN store[contextId] ELSE << >>

SyncEvent(type, contextId, nodes) == [type |-> type, contextId |-> contextId, nodes |-> nodes]

\* client.publish(contextChannel, JSON.stringify(event)): received by the
\* subscriber of initialize(), if there is one.
PublishSync(channel, subscribed, event) ==
    IF subscribed
    THEN Append(channel, SyncEvent(event.type, event.contextId, JsonNodes(event.nodes)))
    ELSE channel

\* syncContext line 61-69: the branch record keyed by event.contextId, if any,
\* gets the event's nodes and a new lastSync.
SyncBranches(branches, contextId, nodes, t) ==
    IF contextId \in DOMAIN branches
    THEN [branches EXCEPT ![contextId] =
            [@ EXCEPT !.nodes = JsonNodes(nodes), !.lastSync = toISOString(Date(t))]]
    ELSE branches

\* syncContext line 46-53: the context key is set to event.nodes, whatever the type.
SyncStore(store, contextId, nodes) == Set(store, contextId, JsonNodes(nodes))

\* The context ids a caller addresses: plain ids and the branch ids in the store.
Addressable == {IdS, IdT} \cup DOMAIN branchStore

SyncContext(type, contextId, nodes) ==
    /\ calls < MaxCtxCalls
    /\ calls' = calls + 1
    /\ ctxStore' = SyncStore(ctxStore, contextId, nodes)
    /\ ctxChannel' = PublishSync(ctxChannel, ctxSubscribed, SyncEvent(type, contextId, nodes))
    /\ ctxPublished' = ctxPublished + 1
    /\ branchStore' = SyncBranches(branchStore, contextId, nodes, now)
    /\ last' = [op |-> "syncContext", contextId |-> contextId, type |-> type,
                before |-> GetSharedContext(ctxStore, contextId)]
    /\ UNCHANGED <<ctxSubscribed, now>>
    /\ UNCHANGED <<agentStore, heartbeatTimer, tasks, discPublished, goneIds,
                   findVars, shutVars, tenantVars, timerVars, bcastVars, brokerVars>>

\* createContextBranch line 86-93
NewBranch(branchId, sourceId, targetId, sourceContext, t) ==
    [id |-> branchId, sourceId |-> sourceId, targetId |-> targetId,
     nodes |-> JsonNodes(sourceContext),
     createdAt |-> toISOString(Date(t)), lastSync |-> toISOString(Date(t))]

CreateContextBranch(sourceId, targetId) ==
    /\ calls < MaxCtxCalls
    /\ calls' = calls + 1
    /\ LET sourceContext == GetSharedContext(ctxStore, sourceId)
           branchId == BranchId(sourceId, targetId, now) IN
        /\ branchStore' = Set(branchStore, branchId,
                              NewBranch(branchId, sourceId, targetId, sourceContext, now))
        /\ last' = [op |-> "createContextBranch", sourceId |-> sourceId,
                    targetId |-> targetId, branchId |-> branchId,
                    replaced |-> Get(branchStore, branchId)]
    /\ UNCHANGED <<ctxStore, ctxChannel, ctxSubscribed, ctxPublished, now>>
    /\ UNCHANGED <<agentStore, heartbeatTimer, tasks, discPublished, goneIds,
                   findVars, shutVars, tenantVars, timerVars, bcastVars, brokerVars>>

\* Whether a branch record made by createContextBranch(sourceId, targetId) is stored.
PairHasBranch(branches, sourceId, targetId) ==
    \E b \in DOMAIN branches :
        branches[b].sourceId = sourceId /\ branches[b].targetId = targetId

\* The creation times (ms) of the branch records stored for the pair.
PairCreationTimes(branches, sourceId, targetId) ==
    { getTime(branches[b].createdAt) :
        b \in { k \in DOMAIN branches : /\ branches[k].sourceId = sourceId
                                        /\ branches[k].targetId = targetId } }

\* Mutant of MergeTarget: the branch is folded back into its source.
MergeTargetIsSource(sourceId, targetId) == sourceId

\* mergeContextBranch line 121-131: the syncContext event is addressed to targetId.
MergeTarget(sourceId, targetId) == targetId

\* mergeContextBranch: keys(pattern); throw if none; take branchKeys[length - 1]
\* (KEYS returns keys in no defined order: any matching key can be last);
\* syncContext(update, targetId, branch.nodes); del(branchKey).
MergeContextBranch(sourceId, targetId) ==
    /\ calls < MaxCtxCalls
    /\ calls' = calls + 1
    /\ LET branchKeys == { k \in Keys(branchStore) :
                             MatchesMergePattern(k, sourceId, targetId) }
           pairHadBranch == PairHasBranch(branchStore, sourceId, targetId)
       IN
        IF branchKeys = {}
        THEN /\ last' = [op |-> "mergeContextBranch", sourceId |-> sourceId,
                         targetId |-> targetId, error |-> "NotFound",
                         pairHadBranch |-> pairHadBranch]
             /\ UNCHANGED <<ctxStore, branchStore, ctxChannel, ctxPublished>>
        ELSE \E branchKey \in branchKeys :
             LET branch == branchStore[branchKey]
                 contextId == MergeTarget(sourceId, targetId) IN
             /\ ctxStore' = SyncStore(ctxStore, contextId, branch.nodes)
             /\ ctxChannel' = PublishSync(ctxChannel, ctxSubscribed,
                                          SyncEvent("update", contextId, branch.nodes))
             /\ ctxPublished' = ctxPublished + 1
             /\ branchStore' = Del(SyncBranches(branchStore, contextId, branch.nodes, now),
                                   branchKey)
             /\ last' = [op |-> "mergeContextBranch", sourceId |-> sourceId,
                         targetId |-> targetId, error |-> "none",
                         pairHadBranch |-> pairHadBranch,
                         branchId |-> branch.id, merged |-> branch.nodes,
                         branchPair |-> <<branch.sourceId, branch.targetId>>,
                         createdAt |-> getTime(branch.createdAt),
                         pairTimes |-> PairCreationTimes(branchStore, sourceId, targetId),
                         gone |-> branchKey \notin DOMAIN branchStore',
                         before |-> GetSharedContext(ctxStore, targetId)]
    /\ UNCHANGED <<ctxSubscribed, now>>
    /\ UNCHANGED <<agentStore, heartbeatTimer, tasks, discPublished, goneIds,
                   findVars, shutVars, tenantVars, timerVars, bcastVars, brokerVars>>

\* initialize(): subscribe to the context channel.
ContextInitialize ==
    /\ ~ctxSubscribed
    /\ ctxSubscribed' = TRUE
    /\ last' = [op |-> "initialize"]
    /\ UNCHANGED <<ctxStore, branchStore, ctxChannel, ctxPublished>>
    /\ UNCHANGED <<agentStore, heartbeatTimer, tasks, calls, discPublished, now, goneIds,
                   findVars, shutVars, tenantVars, timerVars, bcastVars, brokerVars>>

\* The subscriber callback with handleSyncEvent, for the oldest event in flight.
HandleSyncEvent ==
    /\ ctxChannel # << >>
    /\ LET event == Head(ctxChannel)
           rest == Tail(ctxChannel) IN
        CASE event.type = "update" ->
                /\ ctxChannel' = rest
                /\ UNCHANGED <<ctxStore, branchStore, ctxPublished>>
          [] event.type = "delete" ->
                /\ ctxStore' = Del(ctxStore, event.contextId)
                /\ branchStore' = [k \in { b \in DOMAIN branchStore :
                                             ~Contains(b, event.contextId) } |->
                                      branchStore[k]]
                /\ ctxChannel' = rest
                /\ UNCHANGED ctxPublished
          [] event.type = "prune" ->
                LET nodes == GetSharedContext(ctxStore, event.contextId) IN
                /\ ctxStore' = SyncStore(ctxStore, event.contextId, nodes)
                /\ ctxChannel' = PublishSync(rest, ctxSubscribed,
                                             SyncEvent("update", event.contextId, nodes))
                /\ ctxPublished' = ctxPublished + 1
                /\ branchStore' = SyncBranches(branchStore, event.contextId, nodes, now)
    /\ last' = [op |-> "handleSyncEvent", contextId |-> Head(ctxChannel).contextId,
                type |-> Head(ctxChannel).type,
                before |-> GetSharedContext(ctxStore, Head(ctxChannel).contextId),
                published |-> ctxPublished' - ctxPublished]
    /\ UNCHANGED <<ctxSubscribed>>
    /\ UNCHANGED <<agentStore, heartbeatTimer, tasks, calls, discPublished, now, goneIds,
                   findVars, shutVars, tenantVars, timerVars, bcastVars, brokerVars>>

\* One millisecond passes.
ContextTick ==
    /\ now < MaxCtxTicks
    /\ now' = now + 1
    /\ last' = [op |-> "tick"]
    /\ UNCHANGED <<agentStore, heartbeatTimer, tasks, calls, discPublished, goneIds,
                   findVars, shutVars, tenantVars, timerVars, ctxVars, bcastVars, brokerVars>>

SyncTypes == {"update", "delete", "prune"}

NextContext ==
    \/ ContextInitialize
    \/ \E type \in SyncTypes, contextId \in Addressable, nodes \in NodeLists :
          SyncContext(type, contextId, nodes)
    \/ \E sourceId \in SourceIds, targetId \in TargetIds :
          CreateContextBranch(sourceId, targetId)
    \/ \E sourceId \in SourceIds, targetId \in TargetIds :
          MergeContextBranch(sourceId, targetId)
    \/ HandleSyncEvent
    \/ ContextTick

SpecContext == Init /\ [][NextContext]_vars

\* syncContext up to its await of client.get(branchKey) (line 46-62): the
\* context key is set, the event published, the branch record read.  A call
\* that found a branch record waits with it before it writes.
SyncContextGet(type, contextId, nodes) ==
    /\ calls < MaxCtxCalls
    /\ calls' = calls + 1
    /\ ctxStore' = SyncStore(ctxStore, contextId, nodes)
    /\ ctxChannel' = PublishSync(ctxChannel, ctxSubscribed, SyncEvent(type, contextId, nodes))
    /\ ctxPublished' = ctxPublished + 1
    /\ tasks' = IF contextId \in DOMAIN branchStore
                THEN Suspend(tasks, Task("syncContext", contextId, "",
                                         << [branch |-> branchStore[contextId],
                                             nodes |-> nodes] >>))
                ELSE tasks
    /\ last' = [op |-> "syncContext", contextId |-> contextId, type |-> type,
                before |-> GetSharedContext(ctxStore, contextId)]
    /\ UNCHANGED <<branchStore, ctxSubscribed, now>>
    /\ UNCHANGED <<agentStore, heartbeatTimer, discPublished, goneIds,
                   findVars, shutVars, tenantVars, timerVars, bcastVars, brokerVars>>

\* syncContext line 64-67: the branch record that was read gets a new lastSync
\* and the event's nodes and is set under branchKey.
SyncContextSet(t) ==
    /\ t.kind = "syncContext"
    /\ branchStore' = Set(branchStore, t.id,
                          [t.data[1].branch EXCEPT !.nodes = JsonNodes(t.data[1].nodes),
                                                   !.lastSync = toISOString(Date(now))])
    /\ tasks' = Resume(tasks, t)
    /\ last' = [op |-> "syncContextBranch", contextId |-> t.id,
                existed |-> t.id \in DOMAIN branchStore]
    /\ UNCHANGED <<ctxStore, ctxChannel, ctxSubscribed, ctxPublished, now>>
    /\ UNCHANGED <<agentStore, heartbeatTimer, calls, discPublished, goneIds,
                   findVars, shutVars, tenantVars, timerVars, bcastVars, brokerVars>>

\* The context manager as the facade runs it (initialize() is not called, so
\* no event is handled), with syncContext taken at its awaits.
NextMergeRace ==
    \/ \E type \in SyncTypes, contextId \in Addressable, nodes \in NodeLists :
          SyncContextGet(type, contextId, nodes)
    \/ \E t \in BagToSet(tasks) : SyncContextSet(t)
    \/ \E sourceId \in SourceIds, targetId \in TargetIds :
          CreateContextBranch(sourceId, targetId)
    \/ \E sourceId \in SourceIds, targetId \in TargetIds :
          MergeContextBranch(sourceId, targetId)
    \/ ContextTick

SpecMergeRace == Init /\ [][NextMergeRace]_vars

----------------------------------------------------------------------------
(* Claims about the context manager, checked under SpecContext *)

\* C36: a branch record that mergeContextBranch deleted does not exist again:
\* the write-back of a syncContext call finds the record it read still there.
\* Checked under SpecMergeRace, where only mergeContextBranch deletes.
C36_MergedBranchStaysDeleted ==
    last.op = "syncContextBranch" => last.existed


\* C6: right after branchId = createContextBranch(S, T),
\* getSharedContext(branchId) returns the same node list as getSharedContext(S).
C6_BranchReadableAsContext ==
    last.op = "createContextBranch" =>
        GetSharedContext(ctxStore, last.branchId) = GetSharedContext(ctxStore, last.sourceId)

\* C7: once createContextBranch has stored a branch record, the nodes of that
\* record change only in a step that is a syncContext addressed to the branch
\* id (called directly or by the prune handler); no other step, and no sync
\* addressed to the source or to another id, changes them.
C7_BranchNodesChangeOnlyBySyncToBranch ==
    [][ \A b \in DOMAIN branchStore \cap DOMAIN branchStore' :
          branchStore'[b].nodes # branchStore[b].nodes
          => /\ last'.op \in {"syncContext", "handleSyncEvent"}
             /\ last'.contextId = b ]_vars

\* C8: when mergeContextBranch(S, T) has succeeded, getSharedContext(T)
\* returns the nodes the merged branch held.
C8_TargetHoldsMergedNodes ==
    (last.op = "mergeContextBranch" /\ last.error = "none") =>
        GetSharedContext(ctxStore, last.targetId) = last.merged

\* Witness of C8: a merge succeeded and replaced other nodes of the target.
C8_Witness ==
    /\ last.op = "mergeContextBranch"
    /\ last.error = "none"
    /\ last.before # last.merged

\* C9: mergeContextBranch(S, T) fails with NotFound whenever no branch record
\* of the pair (S, T) is stored.
C9_MergeWithoutBranchFails ==
    (last.op = "mergeContextBranch" /\ ~last.pairHadBranch) => last.error = "NotFound"

\* C37: the branch that mergeContextBranch(S, T) merges and deletes was
\* created by createContextBranch(S, T), not for another pair.
C37_MergeTakesBranchOfItsPair ==
    (last.op = "mergeContextBranch" /\ last.error = "none") =>
        last.branchPair = <<last.sourceId, last.targetId>>

\* C38: createContextBranch stores its branch under an id that no stored
\* branch has: it does not overwrite the record of an earlier call.
C38_EveryBranchHasItsOwnRecord ==
    last.op = "createContextBranch" => last.replaced = << >>

\* What a processed delete of contextId leaves: no context entry and no branch
\* record whose id contains contextId.
Deleted(contextId) ==
    /\ GetSharedContext(ctxStore, contextId) = << >>
    /\ \A b \in DOMAIN branchStore : ~Contains(b, contextId)

\* C32: a prune event leaves the stored node list of its context as it was
\* before the prune was issued, whatever nodes the event carries, and its
\* handling publishes one (update) event.
C32_PruneKeepsStoredNodes ==
    /\ (last.op = "syncContext" /\ last.type = "prune") =>
            GetSharedContext(ctxStore, last.contextId) = last.before
    /\ (last.op = "handleSyncEvent" /\ last.type = "prune") =>
            /\ GetSharedContext(ctxStore, last.contextId) = last.before
            /\ last.published = 1

\* C22: when more than one branch record is stored for the pair (S, T), a
\* successful mergeContextBranch(S, T) has merged and deleted the record of the
\* pair with the latest creation time, whichever matching key the store listed
\* last.
C22_MergeTakesLatestBranch ==
    (last.op = "mergeContextBranch" /\ last.error = "none"
        /\ Cardinality(last.pairTimes) > 1) =>
        /\ last.branchPair = <<last.sourceId, last.targetId>>
        /\ \A t \in last.pairTimes : t <= last.createdAt
        /\ last.gone

\* C21: when the subscriber callback has handled a delete event for contextId,
\* and when syncContext has returned for a delete event of which nothing is in
\* flight any more, getSharedContext(contextId) is empty and no branch record
\* whose id contains contextId is stored.
C21_DeleteRemovesContextAndBranches ==
    /\ (last.op = "handleSyncEvent" /\ last.type = "delete") => Deleted(last.contextId)
    /\ (last.op = "syncContext" /\ last.type = "delete" /\ ctxChannel = << >>)
           => Deleted(last.contextId)

----------------------------------------------------------------------------
(* The backplane facade: broadcastMessage.  BaseBackplane (base.ts) and     *)
(* RedisBackplane (redis/index.ts) each define the method; the object's     *)
(* class decides which one a call runs.                                     *)

Facades == {"BaseBackplane", "RedisBackplane"}

\* AgentMessage values: type and metadata{sender, priority}.
Messages == { [type |-> "update", sender |-> "a1", priority |-> 1] }

\* The optional filter callback: none given, or a predicate on the AgentInfo.
Filters == {"none", "roleDev", "rejectAll"}

FilterAccepts(filter, agent) ==
    CASE filter = "none" -> TRUE
      [] filter = "roleDev" -> agent.role = "dev"
      [] filter = "rejectAll" -> FALSE

\* The JSON text published on the message channel: `routing` is <<>> when the
\* text has no routing field (a bare message), else <<the routing object>>.
\* The generated envelope id and the timestamp are left out.
Envelope(message, target) ==
    [message |-> message,
     routing |-> << [source |-> message.sender, target |-> target,
                     priority |-> message.priority] >>]

BareMessage(message) == [message |-> message, routing |-> << >>]

ActiveQuery == [role |-> <<>>, capabilities |-> <<>>, status |-> <<"active">>]

\* base.ts line 73-80: findAgents({status: 'active'}), then the filter if given.
BroadcastTargets(store, filter) ==
    { agent \in FindAgents(store, ActiveQuery) : FilterAccepts(filter, agent) }

\* base.ts line 83-98: one envelope per target, each handed to messageBroker.publish.
BaseBroadcastPayloads(store, message, filter) ==
    SetToBag({ Envelope(message, agent.id) : agent \in BroadcastTargets(store, filter) })

\* redis/index.ts line 117 and RedisMessageBroker.broadcastMessage: the message
\* itself is published once on the channel; agents and filter are not looked at.
RedisBroadcastPayloads(store, message, filter) == SetToBag({ BareMessage(message) })

\* The store commands of one findAgents call: keys, and a get per key found.
FindCommands(store) == {"keys"} \cup (IF Keys(store) = {} THEN {} ELSE {"get"})

\* The store commands that hand a bag of payloads to the channel.
PublishCommands(payloads) == IF payloads = EmptyBag THEN {} ELSE {"publish"}

\* What the steps of the facade's connect, disconnect and cleanup leave alone.
notLifecycle == <<agentStore, tasks, calls, discPublished, now, goneIds,
                  findVars, shutVars, tenantVars, ctxVars, facade,
                  msgStore, msgChannel, msgSubscribed, dispatches,
                  publishResult, persistFailed, delivery>>

\* The awaited steps of RedisBackplane.connect, in order: client.connect(),
\* then in discoveryService.initialize() subscriber.connect() and
\* subscriber.subscribe().  "none": every step succeeds.
RedisConnectSteps == {"none", "client.connect", "subscriber.connect", "subscriber.subscribe"}

\* RedisBackplane.connect(config), failing at step failAt.  Nothing happens when
\* isConnected is set.  The catch block logs and rethrows, so what the steps
\* before the failing one opened stays open.  initialize() puts a new duplicate
\* of the client in the subscriber field and startCleanup() a new interval in
\* the cleanupTimer field, whatever the fields held.  What client.connect()
\* does on a client that is already open is the client library's: both
\* outcomes are kept.
RedisConnect(failAt) ==
    /\ facade = "RedisBackplane"
    /\ connected => failAt = "none"
    /\ LET clientOk == failAt # "client.connect"
           subOk    == clientOk /\ failAt # "subscriber.connect"
           allOk    == failAt = "none"
       IN  IF connected
           THEN /\ UNCHANGED <<connected, clientOpen, subscriber, orphans, sweepDue>>
                /\ last' = [op |-> "connect", entered |-> FALSE, error |-> "none"]
           ELSE /\ clientOpen' = (clientOk \/ clientOpen)
                /\ subscriber' = IF ~clientOk THEN subscriber
                                 ELSE IF subOk THEN "open" ELSE "closed"
                /\ orphans' =
                       [subscribers |-> orphans.subscribers +
                            (IF clientOk /\ subscriber = "open" THEN 1 ELSE 0),
                        timers |-> orphans.timers +
                            (IF allOk /\ sweepDue # <<>> THEN 1 ELSE 0)]
                /\ orphans'.subscribers <= MaxOrphans
                /\ orphans'.timers <= MaxOrphans
                /\ sweepDue' = IF allOk THEN <<now + cleanupInterval>> ELSE sweepDue
                /\ connected' = allOk
                /\ last' = [op |-> "connect", entered |-> TRUE,
                            error |-> IF allOk THEN "none" ELSE failAt]
    /\ UNCHANGED <<notLifecycle, heartbeatTimer, hbDue, subscriptions, retired>>

\* RedisBackplane.disconnect(): client.quit() and the flag, when isConnected is
\* set; the subscriber and the timers of the discovery service are not touched.
RedisDisconnect ==
    /\ facade = "RedisBackplane"
    /\ clientOpen' = IF connected THEN FALSE ELSE clientOpen
    /\ connected' = FALSE
    /\ last' = [op |-> "disconnect", entered |-> connected, error |-> "none"]
    /\ UNCHANGED <<notLifecycle, heartbeatTimer, hbDue, sweepDue, subscriber, orphans,
                   subscriptions, retired>>

\* RedisBackplane.cleanup(): when isConnected is set, discoveryService.cleanup()
\* (both timer fields cleared, the subscriber quit and forgotten) and then
\* disconnect(); nothing at all when isConnected is not set.
RedisCleanup ==
    /\ facade = "RedisBackplane"
    /\ IF connected
       THEN /\ heartbeatTimer' = <<>>
            /\ hbDue' = <<>>
            /\ sweepDue' = <<>>
            /\ subscriber' = "undefined"
            /\ clientOpen' = FALSE
            /\ connected' = FALSE
       ELSE UNCHANGED <<heartbeatTimer, hbDue, sweepDue, subscriber, clientOpen, connected>>
    /\ last' = [op |-> "cleanup", entered |-> connected, error |-> "none"]
    /\ UNCHANGED <<notLifecycle, orphans, subscriptions, retired>>

\* The awaited steps of BaseBackplane.connect.
BaseConnectSteps == {"none", "messageBroker.connect", "initializeServices"}

\* BaseBackplane.connect(config): throws when already connected; when a step
\* fails the catch block calls disconnect(), which returns at its first line
\* because `connected` is still false.
BaseConnect(failAt) ==
    /\ facade = "BaseBackplane"
    /\ connected => failAt = "none"
    /\ connected' = (connected \/ failAt = "none")
    /\ last' = [op |-> "connect", entered |-> ~connected,
                error |-> IF connected THEN "AlreadyConnected" ELSE failAt]
    /\ UNCHANGED <<notLifecycle, heartbeatTimer, timerVars, clientOpen, subscriber, orphans,
                   subscriptions, retired>>

\* BaseBackplane.disconnect(): returns at once when not connected; otherwise
\* messageBroker.disconnect() (the broker clears its subscriptions) and, in the
\* finally block, connected = false.
BaseDisconnect ==
    /\ facade = "BaseBackplane"
    /\ subscriptions' = IF connected THEN << >> ELSE subscriptions
    /\ retired' = IF connected
                  THEN retired \cup { [key |-> k, handler |-> subscriptions[k].handler,
                                       by |-> "disconnect"] : k \in DOMAIN subscriptions }
                  ELSE retired
    /\ connected' = FALSE
    /\ last' = [op |-> "disconnect", entered |-> connected, error |-> "none"]
    /\ UNCHANGED <<notLifecycle, heartbeatTimer, timerVars, clientOpen, subscriber, orphans>>

\* BaseBackplane.broadcastMessage(message, filter): ensureConnected() throws
\* before anything is read or published.
BaseBroadcastMessage(message, filter) ==
    /\ facade = "BaseBackplane"
    /\ calls < MaxCalls
    /\ calls' = calls + 1
    /\ last' = [op |-> "broadcastMessage", message |-> message, filter |-> filter,
                connected |-> connected,
                error |-> IF connected THEN "none" ELSE "NotConnected",
                sent |-> IF connected
                         THEN BaseBroadcastPayloads(agentStore, message, filter)
                         ELSE EmptyBag,
                commands |-> IF connected
                             THEN FindCommands(agentStore) \cup
                                  PublishCommands(BaseBroadcastPayloads(agentStore, message, filter))
                             ELSE {}]
    /\ UNCHANGED <<agentStore, heartbeatTimer, tasks, discPublished, now, goneIds,
                   findVars, shutVars, tenantVars, timerVars, ctxVars, bcastVars, brokerVars>>

\* RedisBackplane.broadcastMessage(message): a second argument is ignored and
\* isConnected is not tested; the publish goes to the client, which rejects it
\* when it has no open connection.
RedisBroadcastMessage(message, filter) ==
    /\ facade = "RedisBackplane"
    /\ calls < MaxCalls
    /\ calls' = calls + 1
    /\ last' = [op |-> "broadcastMessage", message |-> message, filter |-> filter,
                connected |-> connected,
                error |-> IF clientOpen THEN "none" ELSE "ClientClosed",
                sent |-> IF clientOpen
                         THEN RedisBroadcastPayloads(agentStore, message, filter)
                         ELSE EmptyBag,
                commands |-> IF clientOpen THEN {"publish"} ELSE {}]
    /\ UNCHANGED <<agentStore, heartbeatTimer, tasks, discPublished, now, goneIds,
                   findVars, shutVars, tenantVars, timerVars, ctxVars, bcastVars, brokerVars>>

InitBroadcast ==
    /\ InitDiscovery /\ InitFind /\ InitTimers /\ InitContext /\ InitBroker
    /\ InitTenants /\ InitShutdown
    /\ facade \in Facades
    /\ InitLifecycle

NextBroadcast ==
    \/ \E id \in AgentIds, c \in InfoChoices : RegisterAgent(id, c)
    \/ \E id \in AgentIds : UnregisterGet(id)
    \/ \E t \in BagToSet(tasks) : UnregisterDel(t)
    \/ \E id \in AgentIds, status \in Statuses : UpdateGet(id, status)
    \/ \E t \in BagToSet(tasks) : UpdateSet(t)
    \/ RedisConnect("none")
    \/ RedisDisconnect
    \/ BaseConnect("none")
    \/ BaseDisconnect
    \/ \E message \in Messages, filter \in Filters : BaseBroadcastMessage(message, filter)
    \/ \E message \in Messages, filter \in Filters : RedisBroadcastMessage(message, filter)

SpecBroadcast == InitBroadcast /\ [][NextBroadcast]_vars

\* The number of envelopes with routing.target = id among the payloads sent.
EnvelopesFor(sent, message, id) == CopiesIn(Envelope(message, id), sent)

\* C10: a broadcastMessage(msg, filter) on a connected backplane has published
\* exactly one envelope with routing.target = id for each registered agent id
\* that is active and accepted by the filter, and none for any other agent.
C10_OneEnvelopePerActiveAcceptedAgent ==
    (last.op = "broadcastMessage" /\ last.connected) =>
        \A id \in AgentIds :
            EnvelopesFor(last.sent, last.message, id) =
                IF \E agent \in BroadcastTargets(agentStore, last.filter) : agent.id = id
                THEN 1 ELSE 0

----------------------------------------------------------------------------
(* The life cycle of the facade: connect with a failure at any of its       *)
(* awaited steps, disconnect, cleanup, and the calls that need a connected  *)
(* backplane.  The four awaits of connect are taken in one step.            *)

\* findCollaborators arguments: role and capabilities, each optional.
CollaboratorQueries ==
    { [role |-> r, capabilities |-> c, status |-> <<>>] :
        r \in {<<>>, <<"dev">>}, c \in {<<>>, <<{"x"}>>} }

\* BaseBackplane.sendMessage(message): ensureConnected(), then one envelope
\* whose routing.target is message.metadata.sender is handed to publish.
BaseSendMessage(message) ==
    /\ facade = "BaseBackplane"
    /\ calls < MaxCalls
    /\ calls' = calls + 1
    /\ last' = [op |-> "sendMessage", connected |-> connected,
                error |-> IF connected THEN "none" ELSE "NotConnected",
                sent |-> IF connected
                         THEN SetToBag({ Envelope(message, message.sender) })
                         ELSE EmptyBag,
                commands |-> IF connected THEN {"publish"} ELSE {}]
    /\ UNCHANGED <<agentStore, heartbeatTimer, tasks, discPublished, now, goneIds,
                   findVars, shutVars, tenantVars, timerVars, ctxVars, bcastVars, brokerVars>>

\* RedisBackplane.sendMessage(to, message): isConnected is not tested; the
\* broker publishes the message on `${prefix}message:${to}`.
RedisSendMessage(to, message) ==
    /\ facade = "RedisBackplane"
    /\ calls < MaxCalls
    /\ calls' = calls + 1
    /\ last' = [op |-> "sendMessage", connected |-> connected,
                error |-> IF clientOpen THEN "none" ELSE "ClientClosed",
                sent |-> IF clientOpen THEN SetToBag({ BareMessage(message) }) ELSE EmptyBag,
                commands |-> IF clientOpen THEN {"publish"} ELSE {}]
    /\ UNCHANGED <<agentStore, heartbeatTimer, tasks, discPublished, now, goneIds,
                   findVars, shutVars, tenantVars, timerVars, ctxVars, bcastVars, brokerVars>>

\* BaseBackplane.findCollaborators(requirements): ensureConnected(), then
\* findAgents({...requirements, status: 'active'}).
BaseFindCollaborators(query) ==
    /\ facade = "BaseBackplane"
    /\ calls < MaxCalls
    /\ calls' = calls + 1
    /\ last' = [op |-> "findCollaborators", connected |-> connected,
                error |-> IF connected THEN "none" ELSE "NotConnected",
                sent |-> EmptyBag,
                result |-> IF connected
                           THEN FindAgents(agentStore, [query EXCEPT !.status = <<"active">>])
                           ELSE {},
                commands |-> IF connected THEN FindCommands(agentStore) ELSE {}]
    /\ UNCHANGED <<agentStore, heartbeatTimer, tasks, discPublished, now, goneIds,
                   findVars, shutVars, tenantVars, timerVars, ctxVars, bcastVars, brokerVars>>

\* RedisBackplane.findCollaborators(query): isConnected is not tested;
\* findAgents(query) reads the store and the ids of the matches are returned.
RedisFindCollaborators(query) ==
    /\ facade = "RedisBackplane"
    /\ calls < MaxCalls
    /\ calls' = calls + 1
    /\ last' = [op |-> "findCollaborators", connected |-> connected,
                error |-> IF clientOpen THEN "none" ELSE "ClientClosed",
                sent |-> EmptyBag,
                result |-> IF clientOpen
                           THEN { agent.id : agent \in FindAgents(agentStore, query) }
                           ELSE {},
                commands |-> IF clientOpen THEN FindCommands(agentStore) ELSE {}]
    /\ UNCHANGED <<agentStore, heartbeatTimer, tasks, discPublished, now, goneIds,
                   findVars, shutVars, tenantVars, timerVars, ctxVars, bcastVars, brokerVars>>

NextLifecycle ==
    \/ \E failAt \in RedisConnectSteps : RedisConnect(failAt)
    \/ RedisDisconnect
    \/ RedisCleanup
    \/ \E failAt \in BaseConnectSteps : BaseConnect(failAt)
    \/ BaseDisconnect
    \/ \E message \in Messages : BaseSendMessage(message)
    \/ \E to \in AgentIds, message \in Messages : RedisSendMessage(to, message)
    \/ \E message \in Messages, filter \in Filters : BaseBroadcastMessage(message, filter)
    \/ \E message \in Messages, filter \in Filters : RedisBroadcastMessage(message, filter)
    \/ \E query \in CollaboratorQueries : BaseFindCollaborators(query)
    \/ \E query \in CollaboratorQueries : RedisFindCollaborators(query)

SpecLifecycle == InitBroadcast /\ [][NextLifecycle]_vars

\* The calls that need a connected backplane.
GuardedCalls == {"sendMessage", "broadcastMessage", "findCollaborators"}

\* C11: a sendMessage, broadcastMessage or findCollaborators call made while
\* the backplane is not connected (connect has not succeeded, or disconnect has
\* run) fails, whatever the error is called, and has issued no store read,
\* write or publish.
C11_CallsWhileNotConnectedFailAndDoNothing ==
    (last.op \in GuardedCalls /\ ~last.connected) =>
        /\ last.error # "none"
        /\ last.commands = {}

\* C12: a connect of which a step failed leaves the flag false, no store
\* connection open, no subscription connection open and no sweep timer running.
C12_FailedConnectLeavesDisconnected ==
    (last.op = "connect" /\ last.entered /\ last.error # "none") =>
        /\ ~connected
        /\ ~clientOpen
        /\ subscriber # "open" /\ orphans.subscribers = 0
        /\ sweepDue = <<>> /\ orphans.timers = 0

MaxConnects == 2     \* connect calls in progress at a time

\* RedisBackplane.connect(config) up to its first await: the test of
\* isConnected, then client.connect() is called and awaited.
RedisConnectEnter ==
    /\ facade = "RedisBackplane"
    /\ BagCardinality(tasks) < MaxConnects
    /\ tasks' = IF connected THEN tasks ELSE Suspend(tasks, Task("connect", "", "", << >>))
    /\ last' = [op |-> "connect", entered |-> ~connected, error |-> "none", returned |-> connected]
    /\ UNCHANGED <<agentStore, heartbeatTimer, calls, discPublished, now, goneIds,
                   findVars, shutVars, tenantVars, timerVars, ctxVars, bcastVars, brokerVars>>

\* The rest of connect, from the answer to client.connect() to the end, failing
\* at step failAt: isConnected is not tested again.  initialize() puts a new
\* duplicate in the subscriber field and startCleanup() a new interval in the
\* cleanupTimer field, whatever the fields hold.
RedisConnectResume(t, failAt) ==
    /\ t.kind = "connect"
    /\ LET clientOk == failAt # "client.connect"
           subOk    == clientOk /\ failAt # "subscriber.connect"
           allOk    == failAt = "none"
       IN  /\ clientOpen' = (clientOk \/ clientOpen)
           /\ subscriber' = IF ~clientOk THEN subscriber
                            ELSE IF subOk THEN "open" ELSE "closed"
           /\ orphans' =
                  [subscribers |-> orphans.subscribers +
                       (IF clientOk /\ subscriber = "open" THEN 1 ELSE 0),
                   timers |-> orphans.timers +
                       (IF allOk /\ sweepDue # <<>> THEN 1 ELSE 0)]
           /\ orphans'.subscribers <= MaxOrphans
           /\ orphans'.timers <= MaxOrphans
           /\ sweepDue' = IF allOk THEN <<now + cleanupInterval>> ELSE sweepDue
           /\ connected' = (allOk \/ connected)
           /\ last' = [op |-> "connect", entered |-> TRUE,
                       error |-> IF allOk THEN "none" ELSE failAt, returned |-> TRUE]
    /\ tasks' = Resume(tasks, t)
    /\ UNCHANGED <<agentStore, heartbeatTimer, calls, discPublished, now, goneIds,
                   findVars, shutVars, tenantVars, hbDue, ctxVars, facade, brokerVars>>

\* Connect calls that may overlap, with no disconnect and no cleanup; the
\* facade is called meanwhile.
NextConnectRace ==
    \/ RedisConnectEnter
    \/ \E t \in BagToSet(tasks), failAt \in RedisConnectSteps : RedisConnectResume(t, failAt)
    \/ \E query \in CollaboratorQueries : RedisFindCollaborators(query)

SpecConnectRace == Init /\ [][NextConnectRace]_vars

\* C39: with no disconnect between the connect calls, at most one sweep timer
\* runs on the instance.  Every initialize() that starts a sweep timer has
\* subscribed to the discovery channel just before, so this also bounds the
\* discovery subscriptions.
C39_ServicesInitialisedOnce ==
    (IF sweepDue = <<>> THEN 0 ELSE 1) + orphans.timers <= 1

\* C33: when cleanup or disconnect of a connected RedisBackplane has returned,
\* the store connection of the facade and every subscriber connection that
\* a service duplicated from it are closed.
C33_NoConnectionLeftOpen ==
    (facade = "RedisBackplane" /\ last.op \in {"cleanup", "disconnect"} /\ last.entered) =>
        /\ ~clientOpen
        /\ subscriber # "open" /\ orphans.subscribers = 0

\* C13: cleanup does not throw, and when it has returned no timer is running
\* and no connection is open.
C13_CleanupLeavesNothingRunning ==
    last.op = "cleanup" =>
        /\ last.error = "none"
        /\ ~clientOpen
        /\ subscriber # "open" /\ orphans.subscribers = 0
        /\ heartbeatTimer = <<>> /\ hbDue = <<>>
        /\ sweepDue = <<>> /\ orphans.timers = 0

----------------------------------------------------------------------------
(* Two RedisBackplane instances with different prefixes on one Redis.  Keys *)
(* and channel names are strings built by concatenation, modelled as        *)
(* sequences of pieces: <<"p", "agent:", "a1">> is the key "pagent:a1".     *)

MaxTenantCalls == 2

\* Prefix values: "p", "q" and "pagent:".
Prefixes == { <<"p">>, <<"q">>, <<"p", "agent:">> }

\* A pubsub channel name of the config: not given, or "bus".
ChannelNames == { <<>>, <<"bus">> }

\* The configurations of two instances whose prefixes differ: the first has
\* prefix "p", and a config names both channels or neither.
TenantConfigs ==
    { c \in [TenantIds -> { TenantConfig(p, n, n) : p \in Prefixes, n \in ChannelNames }] :
        c[1].prefix = <<"p">> /\ c[1].prefix # c[2].prefix }

\* channel || `${prefix}discovery`
DiscoveryChannel(config) ==
    IF config.discoveryChannel # <<>> THEN config.discoveryChannel
    ELSE config.prefix \o <<"discovery">>

\* channel || `${prefix}messages`
MessageChannel(config) ==
    IF config.messageChannel # <<>> THEN config.messageChannel
    ELSE config.prefix \o <<"messages">>

\* `${prefix}agent:` and `${prefix}message:`
AgentPrefix(config) == config.prefix \o <<"agent:">>
MessagePrefix(config) == config.prefix \o <<"message:">>

\* findAgents({}) of an instance: the values under the keys that KEYS
\* `${agentPrefix}*` lists.
TenantFindAgents(store, config) ==
    { store[k] : k \in { key \in DOMAIN store : IsPrefix(AgentPrefix(config), key) } }

\* getMessage(id) of an instance.
TenantGetMessage(store, config, id) == Get(store, MessagePrefix(config) \o <<id>>)

\* What the reads of an instance return.
TenantReads(store, config) ==
    [agents |-> TenantFindAgents(store, config),
     messages |-> [id \in EnvelopeIds |-> TenantGetMessage(store, config, id)]]

\* The instances whose reads differ between two stores.
ReadsChanged(store, store2) ==
    { j \in TenantIds : TenantReads(store, tenantConfig[j]) # TenantReads(store2, tenantConfig[j]) }

notTenants == <<discVars, findVars, shutVars, timerVars, ctxVars, bcastVars, brokerVars>>

\* connect(): the client is open and the discovery subscriber is subscribed.
TenantConnect(i) ==
    /\ ~tenantState[i].connected
    /\ tenantState' = [tenantState EXCEPT ![i].connected = TRUE]
    /\ UNCHANGED <<tenantConfig, tenantStore, notTenants>>

\* getDiscoveryService().watchAgents(handler)
TenantWatch(i) ==
    /\ ~tenantState[i].watching
    /\ tenantState' = [tenantState EXCEPT ![i].watching = TRUE]
    /\ UNCHANGED <<tenantConfig, tenantStore, notTenants>>

\* RedisMessageBroker.initialize() of the instance
TenantBrokerInitialize(i) ==
    /\ ~tenantState[i].brokerSubscribed
    /\ tenantState' = [tenantState EXCEPT ![i].brokerSubscribed = TRUE]
    /\ UNCHANGED <<tenantConfig, tenantStore, notTenants>>

\* RedisMessageBroker.subscribe(agentId, handler) of the instance
TenantSubscribe(i) ==
    /\ ~tenantState[i].handler
    /\ tenantState' = [tenantState EXCEPT ![i].handler = TRUE]
    /\ UNCHANGED <<tenantConfig, tenantStore, notTenants>>

\* registerAgent(info) on instance i: the record is set under the instance's
\* agent prefix and the add event published on its discovery channel; every
\* connected instance subscribed to a channel of that name gets the event and
\* calls its watchers.
TenantRegisterAgent(i, id) ==
    /\ tenantState[i].connected
    /\ calls < MaxTenantCalls
    /\ calls' = calls + 1
    /\ tenantStore' = Set(tenantStore, AgentPrefix(tenantConfig[i]) \o <<id>>,
                          [kind |-> "agent", id |-> id, by |-> i])
    /\ last' = [op |-> "tenantRegisterAgent", instance |-> i,
                readsChanged |-> ReadsChanged(tenantStore, tenantStore'),
                invoked |-> { j \in TenantIds :
                                /\ tenantState[j].connected
                                /\ tenantState[j].watching
                                /\ DiscoveryChannel(tenantConfig[j]) =
                                       DiscoveryChannel(tenantConfig[i]) }]
    /\ UNCHANGED <<tenantConfig, tenantState>>
    /\ UNCHANGED <<agentStore, heartbeatTimer, tasks, discPublished, now, goneIds,
                   findVars, shutVars, timerVars, ctxVars, bcastVars, brokerVars>>

\* publish(envelope) on the broker of instance i: every instance whose broker
\* subscribed to a channel of that name receives the payload, stores it under
\* its own message prefix (a set on its own client, which must be open) and
\* then calls its handler.
TenantPublish(i, id) ==
    /\ tenantState[i].connected
    /\ calls < MaxTenantCalls
    /\ calls' = calls + 1
    /\ LET receivers == { j \in TenantIds :
                            /\ tenantState[j].brokerSubscribed
                            /\ tenantState[j].connected
                            /\ MessageChannel(tenantConfig[j]) =
                                   MessageChannel(tenantConfig[i]) }
           written == { MessagePrefix(tenantConfig[j]) \o <<id>> : j \in receivers }
       IN  /\ tenantStore' = [k \in DOMAIN tenantStore \cup written |->
                                 IF k \in written
                                 THEN [kind |-> "message", id |-> id, by |-> i]
                                 ELSE tenantStore[k]]
           /\ last' = [op |-> "tenantPublish", instance |-> i,
                       readsChanged |-> ReadsChanged(tenantStore, tenantStore'),
                       invoked |-> { j \in receivers : tenantState[j].handler }]
    /\ UNCHANGED <<tenantConfig, tenantState>>
    /\ UNCHANGED <<agentStore, heartbeatTimer, tasks, discPublished, now, goneIds,
                   findVars, shutVars, timerVars, ctxVars, bcastVars, brokerVars>>

InitTwoTenants ==
    /\ InitDiscovery /\ InitFind /\ InitTimers /\ InitContext /\ InitFacade /\ InitBroker
    /\ tenantConfig \in TenantConfigs
    /\ InitShutdown
    /\ InitTenantState

NextTenants ==
    \/ \E i \in TenantIds : TenantConnect(i)
    \/ \E i \in TenantIds : TenantWatch(i)
    \/ \E i \in TenantIds : TenantBrokerInitialize(i)
    \/ \E i \in TenantIds : TenantSubscribe(i)
    \/ \E i \in TenantIds, id \in AgentIds : TenantRegisterAgent(i, id)
    \/ \E i \in TenantIds, id \in EnvelopeIds : TenantPublish(i, id)

SpecTenants == InitTwoTenants /\ [][NextTenants]_vars

\* C23: an operation on one of two instances with different prefixes changes
\* what no read of the other instance returns, and no watcher or handler of
\* the other instance is called for what it published.
C23_DifferentPrefixesAreIsolated ==
    last.op \in {"tenantRegisterAgent", "tenantPublish"} =>
        /\ last.readsChanged \subseteq {last.instance}
        /\ last.invoked \subseteq {last.instance}

----------------------------------------------------------------------------
(* RedisMessageBroker (redis/message-broker.ts).  The subscriber callback   *)
(* of initialize() awaits the persistence write and then each handler in    *)
(* turn; subscribe, unsubscribe and publish calls can run in between.       *)

MaxBrokerCalls == 4

Handlers == {"h1", "h2"}
Outcomes == {"ok", "throws"}

\* MessageEnvelope values as publishers build them: one is routed to a
\* subscription key of the model, one to an id nobody subscribes under.
MessageEnvelope(id) ==
    [id |-> id, timestamp |-> Date(0),
     routing |-> [source |-> "a1", target |-> IF id = "e1" THEN "a1" ELSE "zz"]]

\* JSON.parse(JSON.stringify(envelope))
JsonEnvelope(envelope) == [envelope EXCEPT !.timestamp = JsonTime(@)]

\* Payloads on the message channel that are no envelope: a text that is not
\* JSON, and the JSON of a bare message (what RedisBackplane.broadcastMessage
\* publishes on the channel), an object without id and routing.
TextPayload == [text |-> "hello"]
ShapelessPayload == [type |-> "update"]
MalformedPayloads == {TextPayload, ShapelessPayload}

\* Whether JSON.parse(payload) returns.
IsJson(payload) == "text" \notin DOMAIN payload

\* `${envelope.id}` in the key template: a missing field reads as undefined.
EnvelopeId(payload) == IF "id" \in DOMAIN payload THEN payload.id ELSE "undefined"

\* getMessage: `message ? JSON.parse(message) : null`
GetMessage(store, id) == Get(store, id)

\* A Map keeps its entries in insertion order and an iterator walks them by
\* position: `slot` is the position of a key's entry.  A new key is put after
\* every entry and after the position of every iterator in progress.
MaxSlot(map, tasks_) ==
    LET used == {map[k].slot : k \in DOMAIN map} \cup {t.pos : t \in tasks_}
    IN  IF used = {} THEN 0 ELSE CHOOSE m \in used : \A u \in used : u <= m

\* Mutant of MapSet: the handler already registered under the key is kept.
MapSetIfAbsent(map, tasks_, key, handler) ==
    IF key \in DOMAIN map
    THEN map
    ELSE Set(map, key, [slot |-> MaxSlot(map, tasks_) + 1, handler |-> handler])

\* subscriptions.set(pattern, handler): an existing key keeps its position.
MapSet(map, tasks_, key, handler) ==
    IF key \in DOMAIN map
    THEN [map EXCEPT ![key].handler = handler]
    ELSE Set(map, key, [slot |-> MaxSlot(map, tasks_) + 1, handler |-> handler])

\* Mutant of MapDelete: the entry stays in the map.
MapDeleteNothing(map, key) == map

\* subscriptions.delete(pattern)
MapDelete(map, key) == Del(map, key)

\* Mutant of NextEntry: the loop stops after the first handler.
NextEntryOnce(map, pos) ==
    LET later == {k \in DOMAIN map : map[k].slot > pos}
    IN  IF later = {} \/ pos > 0 THEN << >>
        ELSE << CHOOSE k \in later : \A j \in later : map[k].slot <= map[j].slot >>

\* The next step of `for (const handler of this.subscriptions.values())` after
\* position pos: <<>> when the iterator is done, else <<key>> of the next entry.
NextEntry(map, pos) ==
    LET later == {k \in DOMAIN map : map[k].slot > pos}
    IN  IF later = {} THEN << >>
        ELSE << CHOOSE k \in later : \A j \in later : map[k].slot <= map[j].slot >>

\* History: the (key, handler) pairs taken out of the map, until the key is
\* given that handler again.
Retire(set, map, key, by) ==
    IF key \in DOMAIN map
    THEN set \cup {[key |-> key, handler |-> map[key].handler, by |-> by]}
    ELSE set

Reinstate(set, key, handler) ==
    {r \in set : ~(r.key = key /\ r.handler = handler)}

\* What the steps of the broker leave alone.
notBroker == <<agentStore, heartbeatTimer, tasks, discPublished, now, goneIds,
               findVars, shutVars, tenantVars, timerVars, ctxVars, bcastVars>>

\* initialize(): duplicate the client, connect, subscribe to the message channel.
BrokerInitialize ==
    /\ ~msgSubscribed
    /\ msgSubscribed' = TRUE
    /\ last' = [op |-> "initialize"]
    /\ UNCHANGED <<subscriptions, msgStore, msgChannel, dispatches, publishResult,
                   persistFailed, delivery, retired, calls>>
    /\ UNCHANGED notBroker

\* subscribe(pattern, handler)
Subscribe(key, handler) ==
    /\ calls < MaxBrokerCalls
    /\ calls' = calls + 1
    /\ subscriptions' = MapSet(subscriptions, dispatches, key, handler)
    /\ retired' = Reinstate(Retire(retired, subscriptions, key, "subscribe"), key, handler)
    /\ last' = [op |-> "subscribe", key |-> key, handler |-> handler,
                replaced |-> IF key \in DOMAIN subscriptions
                             THEN <<subscriptions[key].handler>> ELSE << >>]
    /\ UNCHANGED <<msgStore, msgChannel, msgSubscribed, dispatches, publishResult,
                   persistFailed, delivery>>
    /\ UNCHANGED notBroker

\* unsubscribe(pattern)
Unsubscribe(key) ==
    /\ calls < MaxBrokerCalls
    /\ calls' = calls + 1
    /\ subscriptions' = MapDelete(subscriptions, key)
    /\ retired' = Retire(retired, subscriptions, key, "unsubscribe")
    /\ last' = [op |-> "unsubscribe", key |-> key,
                removed |-> IF key \in DOMAIN subscriptions
                            THEN <<subscriptions[key].handler>> ELSE << >>]
    /\ UNCHANGED <<msgStore, msgChannel, msgSubscribed, dispatches, publishResult,
                   persistFailed, delivery>>
    /\ UNCHANGED notBroker

\* publish(message): client.publish(messageChannel, JSON.stringify(message)),
\* nothing else.  ok = FALSE: the client rejects the command.
BrokerPublish(id, ok) ==
    /\ calls < MaxBrokerCalls
    /\ calls' = calls + 1
    /\ publishResult[id] = "none"
    /\ publishResult' = [publishResult EXCEPT ![id] = IF ok THEN "ok" ELSE "failed"]
    /\ msgChannel' = IF ok /\ msgSubscribed
                     THEN Append(msgChannel, JsonEnvelope(MessageEnvelope(id)))
                     ELSE msgChannel
    /\ last' = [op |-> "publish", id |-> id, error |-> IF ok THEN "none" ELSE "Transport"]
    /\ UNCHANGED <<subscriptions, msgStore, msgSubscribed, dispatches, persistFailed,
                   delivery, retired>>
    /\ UNCHANGED notBroker

\* A subscriber callback in progress: the envelope, where it waits, the
\* position of its iterator, the handler it awaits, and (history) the
\* invocations made, what was registered and retired at the receipt, and the
\* number of the receipt.
Dispatch(envelope, map, gone, seq) ==
    [envelope |-> envelope, pc |-> "set", pos |-> 0, cur |-> << >>, log |-> << >>,
     atReceipt |-> map, retiredAtReceipt |-> gone, seq |-> seq]

\* Something other than this broker publishes a payload on the message channel.
PublishForeign(payload) ==
    /\ calls < MaxBrokerCalls
    /\ calls' = calls + 1
    /\ msgChannel' = IF msgSubscribed THEN Append(msgChannel, payload) ELSE msgChannel
    /\ last' = [op |-> "publishForeign", id |-> EnvelopeId(payload)]
    /\ UNCHANGED <<subscriptions, msgStore, msgSubscribed, dispatches, publishResult,
                   persistFailed, delivery, retired>>
    /\ UNCHANGED notBroker

\* The callback line 24-34: JSON.parse throws on a text that is not JSON and
\* the outer catch ends the callback; whatever it returns is taken for an
\* envelope, and client.set(...) is awaited.
BrokerReceive ==
    /\ msgChannel # << >>
    /\ msgChannel' = Tail(msgChannel)
    /\ dispatches' = IF IsJson(Head(msgChannel))
                     THEN dispatches \cup {Dispatch(Head(msgChannel), subscriptions, retired,
                                                    delivery.received + 1)}
                     ELSE dispatches
    /\ delivery' = [delivery EXCEPT !.received = @ + 1]
    /\ last' = [op |-> "receive", id |-> EnvelopeId(Head(msgChannel)),
                parsed |-> IsJson(Head(msgChannel))]
    /\ UNCHANGED <<subscriptions, msgStore, msgSubscribed, publishResult, persistFailed,
                   retired, calls>>
    /\ UNCHANGED notBroker

\* The handler loop line 37-43 from the state t of a callback: the next entry
\* of the map is invoked and awaited, or the loop and the callback end.
ContinueLoop(old, t) ==
    LET next == NextEntry(subscriptions, t.pos) IN
    IF next = << >>
    THEN /\ dispatches' = dispatches \ {old}
         /\ UNCHANGED delivery
         /\ last' = [op |-> "dispatched", id |-> EnvelopeId(t.envelope), envelope |-> t.envelope,
                     log |-> t.log, atReceipt |-> t.atReceipt,
                     retiredAtReceipt |-> t.retiredAtReceipt, atEnd |-> subscriptions]
    ELSE LET key == next[1]
             entry == subscriptions[key] IN
         /\ dispatches' = (dispatches \ {old}) \cup
                {[t EXCEPT !.pc = "handler", !.pos = entry.slot,
                           !.cur = <<[key |-> key, handler |-> entry.handler]>>]}
         /\ delivery' = [delivery EXCEPT !.invoked =
                            Append(@, [key |-> key, handler |-> entry.handler, seq |-> t.seq])]
         /\ last' = [op |-> "invoke", id |-> EnvelopeId(t.envelope), key |-> key,
                     handler |-> entry.handler, slot |-> entry.slot]

\* The awaited client.set returns.  ok = FALSE: it rejects, the outer catch
\* logs 'Error processing message' and the callback ends.  The commands go
\* to the one client, which answers them in the order they were sent.
PersistDone(t, ok) ==
    /\ t.pc = "set"
    /\ \A u \in dispatches : u.pc = "set" => t.seq <= u.seq
    /\ IF ok
       THEN /\ msgStore' = Set(msgStore, EnvelopeId(t.envelope), t.envelope)
            /\ ContinueLoop(t, t)
            /\ UNCHANGED persistFailed
       ELSE /\ persistFailed' = persistFailed \cup {EnvelopeId(t.envelope)}
            /\ dispatches' = dispatches \ {t}
            /\ UNCHANGED delivery
            /\ last' = [op |-> "dispatchFailed", id |-> EnvelopeId(t.envelope)]
            /\ UNCHANGED msgStore
    /\ UNCHANGED <<subscriptions, msgChannel, msgSubscribed, publishResult, retired, calls>>
    /\ UNCHANGED notBroker

\* Mutant of LoopGoesOn: a rejection leaves the loop (no inner try/catch).
LoopGoesOnIfOk(outcome) == outcome = "ok"

\* Handler loop line 38-42: the inner try/catch swallows a rejection, so the
\* loop goes on after either outcome.
LoopGoesOn(outcome) == TRUE

\* The awaited handler returns or rejects.
HandlerDone(t, outcome) ==
    /\ t.pc = "handler"
    /\ LET done == [t EXCEPT !.cur = << >>,
                             !.log = Append(@, [slot |-> t.pos, key |-> t.cur[1].key,
                                                handler |-> t.cur[1].handler,
                                                outcome |-> outcome])]
       IN  IF LoopGoesOn(outcome)
           THEN ContinueLoop(t, done)
           ELSE /\ dispatches' = dispatches \ {t}
                /\ UNCHANGED delivery
                /\ last' = [op |-> "dispatched", id |-> EnvelopeId(t.envelope),
                            envelope |-> t.envelope, log |-> done.log,
                            atReceipt |-> t.atReceipt,
                            retiredAtReceipt |-> t.retiredAtReceipt,
                            atEnd |-> subscriptions]
    /\ UNCHANGED <<subscriptions, msgStore, msgChannel, msgSubscribed, publishResult,
                   persistFailed, retired, calls>>
    /\ UNCHANGED notBroker

\* The store and the channel answer every command.
NextBroker ==
    \/ BrokerInitialize
    \/ \E key \in AgentIds, handler \in Handlers : Subscribe(key, handler)
    \/ \E key \in AgentIds : Unsubscribe(key)
    \/ \E id \in EnvelopeIds : BrokerPublish(id, TRUE)
    \/ BrokerReceive
    \/ \E t \in dispatches : PersistDone(t, TRUE)
    \/ \E t \in dispatches, outcome \in Outcomes : HandlerDone(t, outcome)

SpecBroker == Init /\ [][NextBroker]_vars

\* The broker with payloads of other publishers on its channel.
NextMalformed ==
    \/ NextBroker
    \/ \E payload \in MalformedPayloads : PublishForeign(payload)

SpecMalformed == Init /\ [][NextMalformed]_vars

\* The store or the channel may reject a command.
NextBrokerFaults ==
    \/ BrokerInitialize
    \/ \E key \in AgentIds, handler \in Handlers : Subscribe(key, handler)
    \/ \E key \in AgentIds : Unsubscribe(key)
    \/ \E id \in EnvelopeIds, ok \in BOOLEAN : BrokerPublish(id, ok)
    \/ BrokerReceive
    \/ \E t \in dispatches, ok \in BOOLEAN : PersistDone(t, ok)
    \/ \E t \in dispatches, outcome \in Outcomes : HandlerDone(t, outcome)

SpecBrokerFaults == Init /\ [][NextBrokerFaults]_vars

----------------------------------------------------------------------------
(* Agent.cleanup() of an agent that init() registered: its awaited calls    *)
(* on the discovery service and the broker, run without another call in     *)
(* between.  A call that throws ends cleanup(): the catch block rethrows.   *)

AgentCleanup(id) ==
    /\ calls < MaxCalls
    /\ calls' = calls + 1
    /\ id \in DOMAIN agentStore
    /\ LET unregistered == Del(agentStore, id)
           removed == UnregisterPublish(discPublished, id, Get(agentStore, id))
           data == Get(unregistered, id)
           thrown == data = << >>
       IN  /\ agentStore' = IF thrown THEN unregistered
                            ELSE Set(unregistered, id,
                                     JsonRegistration(UpdatedRegistration(data[1], "offline", now)))
           /\ discPublished' = IF thrown THEN removed ELSE Publish(removed, "update", id)
           /\ last' = [op |-> "agentCleanup", id |-> id,
                       error |-> IF thrown THEN "AgentNotFound" ELSE "none",
                       steps |-> IF thrown THEN <<"unregisterAgent", "unsubscribe">>
                                 ELSE <<"unregisterAgent", "unsubscribe", "updateAgentStatus",
                                        "broadcastMessage">>]
    /\ heartbeatTimer' = StopHeartbeat(heartbeatTimer)
    /\ goneIds' = goneIds \cup {id}
    /\ subscriptions' = MapDelete(subscriptions, id)
    /\ retired' = Retire(retired, subscriptions, id, "unsubscribe")
    /\ UNCHANGED <<tasks, now, findVars, shutVars, tenantVars, timerVars, ctxVars, bcastVars,
                   msgStore, msgChannel, msgSubscribed, dispatches, publishResult,
                   persistFailed, delivery>>

NextAgent ==
    \/ Next
    \/ \E id \in AgentIds : AgentCleanup(id)

SpecAgent == Init /\ [][NextAgent]_vars

\* C40: Agent.cleanup() of a registered agent runs unregister, unsubscribe,
\* the status update and the broadcast of the shutdown message, and does not
\* throw.
C40_AgentCleanupRunsToTheEnd ==
    last.op = "agentCleanup" =>
        /\ last.error = "none"
        /\ last.steps[Len(last.steps)] = "broadcastMessage"

----------------------------------------------------------------------------
(* Claims about the broker *)

\* The invocations of a finished dispatch made for the entry at a slot.
InvocationsAt(log, slot) == {i \in DOMAIN log : log[i].slot = slot}

\* C31: a handler is invoked with the envelopes in the order the channel
\* delivered them: never with a later envelope before an earlier one.
C31_HandlersSeeEnvelopesInOrder ==
    \A i, j \in DOMAIN delivery.invoked :
        (/\ i < j
         /\ delivery.invoked[i].key = delivery.invoked[j].key
         /\ delivery.invoked[i].handler = delivery.invoked[j].handler)
            => delivery.invoked[i].seq <= delivery.invoked[j].seq

\* C30: while a handler invoked for an envelope has not returned, no other
\* registered handler is still waiting to be invoked for that envelope.
C30_SlowHandlerDelaysNoOther ==
    \A t \in dispatches :
        t.pc = "handler" => NextEntry(subscriptions, t.pos) = << >>

\* C14: once publish(envelope) has returned successfully, getMessage(envelope.id)
\* returns the envelope, whether or not a subscriber has received it.
C14_PublishedEnvelopeIsStored ==
    \A id \in EnvelopeIds :
        publishResult[id] = "ok" =>
            GetMessage(msgStore, id) = << JsonEnvelope(MessageEnvelope(id)) >>

\* C15: an envelope whose persistence write failed was sent by a publish call
\* that failed, and a publish call whose channel publish failed has failed.
C15_PersistenceFailureFailsThePublish ==
    /\ \A id \in persistFailed : publishResult[id] = "failed"
    /\ (last.op = "publish" /\ last.error # "none") => publishResult[last.id] = "failed"

C17_ThrowingHandlerIsIsolated ==
    (last.op = "dispatched" /\ \E i \in DOMAIN last.log : last.log[i].outcome = "throws") =>
        /\ \A k \in DOMAIN last.atEnd : InvocationsAt(last.log, last.atEnd[k].slot) # {}
        /\ \A i, j \in DOMAIN last.log :
              (last.log[i].outcome = "throws" /\ last.log[j].slot = last.log[i].slot) => i = j
        /\ publishResult[last.id] = "ok"

\* Witness of C17: the first handler threw and the second was invoked after it.
C17_Witness ==
    /\ last.op = "dispatched"
    /\ Len(last.log) = 2
    /\ last.log[1].outcome = "throws"
    /\ last.log[2].outcome = "ok"
    /\ last.log[2].handler # last.log[1].handler

\* C18: subscribe(agentId, h2) replaces the handler registered under agentId;
\* a handler is invoked under a key only while it is the one registered under
\* it, never after it was replaced, and the entry of a key that stays
\* registered through a dispatch is invoked in it.
C18_SubscribeReplacesHandler ==
    /\ last.op = "subscribe" =>
          /\ last.key \in DOMAIN subscriptions
          /\ subscriptions[last.key].handler = last.handler
    /\ last.op = "invoke" =>
          /\ subscriptions[last.key].handler = last.handler
          /\ [key |-> last.key, handler |-> last.handler, by |-> "subscribe"] \notin retired
    /\ last.op = "dispatched" =>
          \A k \in DOMAIN last.atReceipt \cap DOMAIN last.atEnd :
              last.atReceipt[k] = last.atEnd[k] =>
                  \E i \in DOMAIN last.log :
                      /\ last.log[i].key = k
                      /\ last.log[i].handler \in
                            {last.atEnd[k].handler} \cup
                            {r.handler : r \in {q \in retired : q.key = k}}

\* Witness of C18: h1 had been replaced under the key before the envelope was
\* received, and the dispatch invoked the replacement only.
C18_Witness ==
    /\ last.op = "dispatched"
    /\ \E r \in last.retiredAtReceipt :
          /\ r.by = "subscribe"
          /\ r.key \in DOMAIN last.atReceipt
          /\ \E i \in DOMAIN last.log :
                last.log[i].key = r.key /\ last.log[i].handler = last.atReceipt[r.key].handler
          /\ \A i \in DOMAIN last.log :
                ~(last.log[i].key = r.key /\ last.log[i].handler = r.handler)

\* C19: unsubscribe(agentId) removes the entry of agentId, and no handler is
\* invoked under a key it was unsubscribed from, unless subscribed again.
C19_UnsubscribedHandlerNotInvoked ==
    /\ last.op = "unsubscribe" => last.key \notin DOMAIN subscriptions
    /\ last.op = "invoke" =>
          /\ last.key \in DOMAIN subscriptions
          /\ [key |-> last.key, handler |-> last.handler, by |-> "unsubscribe"] \notin retired

\* Witness of C19: an envelope received after the unsubscribe has been handed
\* to the other handler and not to the unsubscribed one.
C19_Witness ==
    /\ last.op = "dispatched"
    /\ last.log # << >>
    /\ \E r \in last.retiredAtReceipt :
          /\ r.by = "unsubscribe"
          /\ r.key \notin DOMAIN last.atReceipt
          /\ \A i \in DOMAIN last.log : last.log[i].key # r.key

\* C24: for a payload on the message channel that is no envelope, no handler
\* is invoked and nothing is written to the store.
C24_MalformedPayloadIsDropped ==
    /\ last.op = "invoke" => last.id # "undefined"
    /\ "undefined" \notin DOMAIN msgStore

====
